---- MODULE Spec2Model ----
(***************************************************************************)
(* Archi-studio: the request orchestrator (services/geminiService.ts) and  *)
(* the application state that drives it (App.tsx: batches, credits,        *)
(* history).                                                               *)
(*                                                                         *)
(* Strings that the code searches with String.includes are sequences of    *)
(* tokens; a token is a run of characters that no searched pattern splits. *)
(* JavaScript values that may be a number, a string or undefined are       *)
(* tagged records, so that === is record equality.                         *)
(***************************************************************************)
EXTENDS Integers, Sequences, FiniteSets, TLC

VARIABLES
    \* ---- retryOperation run on its own (geminiService.ts:125-151) ----
    rpc,        \* position of the loop
    attempt,    \* the loop variable
    lastError,  \* `lastError`
    rResult,    \* what retryOperation returned or threw
    calls,      \* invocations of `operation` made by the loop
    opLog,      \* what `operation` did, in order: outcome and settle time
    callLog,    \* time of each invocation
    waits,      \* the backoff waits: attempt, requested delay, start time
    wakeAt,     \* expiry of the pending setTimeout
    now,        \* wall clock in ms (Date.now / timers)
    \* ---- isRetryableError applied to one error value ----
    cErr, cRes,
    \* ---- a pure helper applied to one input ----
    hArg,               \* the arguments
    hRes,               \* what the helper returned, once it has
    \* ---- App state (App.tsx) ----
    credits,            \* useAuth().credits, the locally tracked balance
    isAdmin,            \* useAuth().isAdmin
    history,            \* HistoryItem[], newest first
    loading,            \* LoadingState
    appError,           \* global error toast, "null" when hidden
    refImages,          \* style reference images
    activeTask,         \* TaskType of the mounted workspace
    \* ---- ArchitecturalWorkspace state ----
    baseImages, activeIndex, annotatedImages, prompt, isUpscaleMode,
    stylePrompt, isAnalyzing, isGeneratingRefs, analysisResult, workspaceError,
    \* ---- the asynchronous handlers in progress ----
    gen,                \* handleGenerate / handleUpscale
    ana,                \* handleAnalyze
    refs,               \* handleGenerateRefs
    inflight,           \* generateContent requests sent and not yet settled
    \* ---- bookkeeping of the exploration ----
    ops,                \* operations dispatched so far
    fails,              \* failures injected so far
    nFeedback,          \* feedback clicks so far
    \* ---- CanvasEditor (components/CanvasEditor.tsx) ----
    baseImage,          \* the baseImage prop
    imgElement,         \* the loaded image, "null" before the first load
    imgLoading,         \* Image objects created by the effect, not yet settled
    scale, offset, isPanning,
    tool, isDrawing,
    undoStack, redoStack,   \* undoStackRef / redoStackRef, oldest first
    canUndo, canRedo,
    layer,              \* the annotation raster of the canvas: its marks, in order
    canvasSize,         \* whose dimensions the canvas has, "default" for 300x150
    ctxTool,            \* the drawing state of the 2d context
    raf,                \* a requestAnimationFrame callback is pending
    segs,               \* segments requested in the current gesture
    composite,          \* the last image handed to onUpdate
    emitted             \* whether the last handler called onUpdate

retryVars == <<rpc, attempt, lastError, rResult, calls, opLog, callLog, waits, wakeAt>>
helperVars == <<hArg, hRes>>
classVars == <<cErr, cRes, helperVars>>
appVars == <<credits, isAdmin, history, loading, appError, refImages, activeTask>>
wsVars == <<baseImages, activeIndex, annotatedImages, prompt, isUpscaleMode,
            stylePrompt, isAnalyzing, isGeneratingRefs, analysisResult, workspaceError>>
\* the workspace state the canvas editor has no hand in
wsRest == <<baseImages, activeIndex, prompt, isUpscaleMode,
            stylePrompt, isAnalyzing, isGeneratingRefs, analysisResult, workspaceError>>
procVars == <<gen, ana, refs, inflight>>
countVars == <<ops, fails, nFeedback>>
loadVars == <<baseImage, imgElement, imgLoading>>
viewVars == <<scale, offset, isPanning>>
stackVars == <<undoStack, redoStack, canUndo, canRedo>>
drawVars == <<tool, isDrawing, layer, canvasSize, ctxTool, raf, segs>>
outVars == <<composite, emitted>>
canvasVars == <<loadVars, viewVars, stackVars, drawVars, outVars>>
uiVars == <<appVars, wsVars, procVars, countVars, canvasVars>>

vars == <<retryVars, now, classVars, uiVars>>

\* ------------------------------------------------------------------------
\* Bounds of the model
\* ------------------------------------------------------------------------
\* how late a timer may fire, in ms, at most
MaxLate == 1
\* base images in the workspace, at most
MaxImages == 2
\* operations dispatched in one behaviour of SpecApp, at most
MaxOps == 2
\* failures (rejected requests, empty responses, failed debits) in one
\* behaviour of SpecBatch, at most
MaxFail == 6
\* the same in one behaviour of SpecApp
MaxAppFail == 1
\* batches run in one behaviour of SpecHistory, at most
HistOps == 22
\* batches submitted and images loaded in one behaviour of SpecGate
GateOps == 2
GateImages == 1
\* marks on the raster in SpecStrokes; snapshots held by the two stacks,
\* and marks on the raster, in the other specifications of the canvas
StrokeMarks == 22
CanvasSnaps == 2
\* base images in the workspace, and batches run, in SpecSlots and
\* SpecMounts
SlotImages == 2
SlotOps == 1
\* feedback clicks, at most
MaxFeedback == 1
\* the balance read at session start
StartCredits == 7

\* ------------------------------------------------------------------------
\* JavaScript values
\* ------------------------------------------------------------------------
Num(n) == [t |-> "number", n |-> n, s |-> ""]
Str(s) == [t |-> "string", n |-> 0, s |-> s]
Undef == [t |-> "undefined", n |-> 0, s |-> ""]

RECURSIVE Pow2(_)
Pow2(n) == IF n = 0 THEN 1 ELSE 2 * Pow2(n - 1)

\* String.prototype.includes on token sequences: pat occurs contiguously
Includes(msg, pat) ==
    \E i \in 0..(Len(msg) - Len(pat)) :
        \A j \in 1..Len(pat) : msg[i + j] = pat[j]

\* a thrown value.  type: "Error" (instanceof Error), "object" (any other
\* object), "string" (a primitive).  inner is the `error` property.
NoInner == [present |-> FALSE, code |-> Undef, status |-> Undef, message |-> <<>>]
Inner(c, s, m) == [present |-> TRUE, code |-> c, status |-> s, message |-> m]
Err(ty, st, co, inn, m) ==
    [type |-> ty, status |-> st, code |-> co, inner |-> inn, message |-> m]
NoErr == Err("none", Undef, Undef, NoInner, <<>>)

\* String(error)
StringOf(e) ==
    IF e.type = "string" THEN e.message
    ELSE IF e.type = "Error"
         THEN (IF e.message = <<>> THEN <<"Error">> ELSE <<"Error: ">> \o e.message)
         ELSE <<"[object Object]">>

\* ------------------------------------------------------------------------
\* isRetryableError (geminiService.ts:86-120)
\* ------------------------------------------------------------------------
InnerRetryable(ie) ==
    \/ ie.code = Num(503) \/ ie.status = Str("UNAVAILABLE")
    \/ ie.code = Num(429) \/ ie.status = Str("RESOURCE_EXHAUSTED")
    \/ Includes(ie.message, <<"Deadline expired">>)
    \/ Includes(ie.message, <<"503">>)
    \/ Includes(ie.message, <<"UNAVAILABLE">>)
    \/ Includes(ie.message, <<"Overloaded">>)
    \/ Includes(ie.message, <<"RESOURCE_EXHAUSTED">>)

MessageRetryable(msg) ==
    \/ Includes(msg, <<"Deadline expired">>)
    \/ Includes(msg, <<"503">>)
    \/ Includes(msg, <<"UNAVAILABLE">>)
    \/ Includes(msg, <<"Overloaded">>)
    \/ Includes(msg, <<"upstream", " connect error">>)
    \/ Includes(msg, <<"RESOURCE_EXHAUSTED">>)
    \/ Includes(msg, <<"429">>)

\* the same function without the top-level `code` probes
isRetryableError_NoCode(e) ==
    IF e.type \notin {"Error", "object"} THEN FALSE
    ELSE \/ e.status = Num(503) \/ e.status = Str("UNAVAILABLE")
         \/ e.status = Num(429) \/ e.status = Str("RESOURCE_EXHAUSTED")
         \/ (e.inner.present /\ InnerRetryable(e.inner))
         \/ MessageRetryable(IF e.message # <<>> THEN e.message ELSE StringOf(e))

\* the same function classifying every object as retryable
isRetryableError_Always(e) == e.type \in {"Error", "object"}

isRetryableError(e) ==
    IF e.type \notin {"Error", "object"} THEN FALSE
    ELSE \/ e.status = Num(503) \/ e.code = Num(503) \/ e.status = Str("UNAVAILABLE")
         \/ e.status = Num(429) \/ e.code = Num(429) \/ e.status = Str("RESOURCE_EXHAUSTED")
         \/ (e.inner.present /\ InnerRetryable(e.inner))
         \/ MessageRetryable(IF e.message # <<>> THEN e.message ELSE StringOf(e))

\* ------------------------------------------------------------------------
\* getHumanReadableError (geminiService.ts:55-81)
\* ------------------------------------------------------------------------
getHumanReadableError(e) ==
    IF e.type # "Error" THEN "unknown"
    ELSE LET msg == e.message IN
         IF \/ Includes(msg, <<"API_KEY_INVALID">>) \/ Includes(msg, <<"API key not valid">>)
            \/ Includes(msg, <<"api_key">>)
         THEN "invalid-key"
         ELSE IF \/ Includes(msg, <<"RESOURCE_EXHAUSTED">>) \/ Includes(msg, <<"quota">>)
                 \/ Includes(msg, <<"rate_limit">>) \/ Includes(msg, <<"429">>)
         THEN "quota"
         ELSE IF \/ Includes(msg, <<"SAFETY">>) \/ Includes(msg, <<"safety">>)
                 \/ Includes(msg, <<"blocked">>)
         THEN "safety"
         ELSE IF \/ Includes(msg, <<"503">>) \/ Includes(msg, <<"UNAVAILABLE">>)
                 \/ Includes(msg, <<"Overloaded">>) \/ Includes(msg, <<"upstream">>)
         THEN "overloaded"
         ELSE IF Includes(msg, <<"NOT_FOUND">>) \/ Includes(msg, <<"not found">>)
         THEN "model-not-found"
         ELSE IF Includes(msg, <<"No image generated">>) \/ Includes(msg, <<"no image">>)
         THEN "no-image"
         ELSE IF Includes(msg, <<"INVALID_ARGUMENT">>)
         THEN "invalid-argument"
         ELSE IF msg # <<>> THEN "raw-message" ELSE "generic"

\* ------------------------------------------------------------------------
\* Error values used as inputs
\* ------------------------------------------------------------------------
E503 == Err("Error", Num(503), Undef, NoInner, <<"The model is overloaded">>)
E429 == Err("Error", Undef, Undef, NoInner, <<"got status: ", "429", " Too Many Requests">>)
EInvalid == Err("Error", Num(400), Undef, NoInner, <<"invalid argument">>)
ESafety == Err("Error", Undef, Undef, NoInner, <<"Request ", "blocked", " by ", "SAFETY">>)
ENoImage == Err("Error", Undef, Undef, NoInner, <<"No image generated">>)

RetryableErrors == {E503, E429}
TerminalErrors == {EInvalid, ESafety}

\* isRetryableError inputs: every combination of the probed fields
StatusValues == {Undef, Num(429), Num(503), Num(400), Str("UNAVAILABLE"), Str("RESOURCE_EXHAUSTED")}
CodeValues == {Undef, Num(429), Num(503)}
InnerStatusValues == {Undef, Num(429), Num(503), Str("UNAVAILABLE"), Str("RESOURCE_EXHAUSTED"),
                      Str("INVALID_ARGUMENT")}
InnerMessages == {<<>>, <<"bad request">>}
Messages == {<<>>, <<"invalid argument">>, <<"got status: ", "429", " Too Many Requests">>,
             <<"HTTP ", "503">>}
Inners == {NoInner} \cup {Inner(c, s, m) : c \in CodeValues, s \in InnerStatusValues, m \in InnerMessages}
ErrorUniverse ==
    {Err(ty, st, co, inn, m) : ty \in {"Error", "object", "string"}, st \in StatusValues,
                               co \in CodeValues, inn \in Inners, m \in Messages}

\* an operation outcome: a value or a thrown error
Ok(v) == [ok |-> TRUE, val |-> v, err |-> NoErr]
Fail(e) == [ok |-> FALSE, val |-> "", err |-> e]
NoOutcome == [ok |-> FALSE, val |-> "", err |-> NoErr]
Values == {"v1", "v2"}

\* ------------------------------------------------------------------------
\* retryOperation (geminiService.ts:125-151)
\* ------------------------------------------------------------------------
retries == 5
initialDelay == 2000

\* Math.random() * 1000 lies in [0, 1000): the two ends
Jitter == {0, 999}

\* a timer fires on time or late
Lateness == {0, MaxLate}

\* line 132 with the bound one short
LoopCond_Short(a) == a < retries

\* line 132: attempt <= retries
LoopCond(a) == a <= retries

\* line 138 with the retry budget one short
ShouldRetry_Short(a, e) == a < retries - 1 /\ isRetryableError(e)

\* line 138: attempt < retries && isRetryableError(error)
ShouldRetry(a, e) == a < retries /\ isRetryableError(e)

\* line 139 with a linear backoff
BackoffDelay_Linear(a, jitter) == initialDelay * (a + 1) + jitter

\* line 139: initialDelay * Math.pow(2, attempt) + Math.random() * 1000
BackoffDelay(a, jitter) == initialDelay * Pow2(a) + jitter

InitRetry ==
    /\ rpc = "loop"
    /\ attempt = 0
    /\ lastError = NoErr
    /\ rResult = NoOutcome
    /\ calls = 0
    /\ opLog = <<>>
    /\ callLog = <<>>
    /\ waits = <<>>
    /\ wakeAt = 0

\* line 132-134: the loop test, then operation() is invoked;
\* line 150 when the test fails
RetryLoop ==
    /\ rpc = "loop"
    /\ IF LoopCond(attempt)
       THEN /\ rpc' = "await"
            /\ calls' = calls + 1
            /\ callLog' = Append(callLog, now)
            /\ UNCHANGED rResult
       ELSE /\ rResult' = Fail(lastError)
            /\ rpc' = "thrown"
            /\ UNCHANGED <<calls, callLog>>
    /\ UNCHANGED <<attempt, lastError, opLog, waits, wakeAt, now, classVars, uiVars>>

\* line 134: the operation resolves and retryOperation returns its value
RetryOpResolves(v) ==
    /\ rpc = "await"
    /\ now' = now + 1
    /\ opLog' = Append(opLog, [out |-> Ok(v), at |-> now'])
    /\ rResult' = Ok(v)
    /\ rpc' = "returned"
    /\ UNCHANGED <<attempt, lastError, calls, callLog, waits, wakeAt, classVars, uiVars>>

\* line 135-146: the operation rejects with e
RetryOpRejects(e, jitter) ==
    /\ rpc = "await"
    /\ now' = now + 1
    /\ opLog' = Append(opLog, [out |-> Fail(e), at |-> now'])
    /\ lastError' = e
    /\ IF ShouldRetry(attempt, e)
       THEN /\ waits' = Append(waits, [attempt |-> attempt,
                                       delay |-> BackoffDelay(attempt, jitter),
                                       from |-> now'])
            /\ wakeAt' = now' + BackoffDelay(attempt, jitter)
            /\ rpc' = "sleep"
            /\ UNCHANGED rResult
       ELSE /\ rResult' = Fail(e)
            /\ rpc' = "thrown"
            /\ UNCHANGED <<waits, wakeAt>>
    /\ UNCHANGED <<attempt, calls, callLog, classVars, uiVars>>

\* line 142-143: the timer fires (never early), `continue` runs attempt++
RetryWake(late) ==
    /\ rpc = "sleep"
    /\ now' = wakeAt + late
    /\ attempt' = attempt + 1
    /\ rpc' = "loop"
    /\ UNCHANGED <<lastError, rResult, calls, opLog, callLog, waits, wakeAt, classVars, uiVars>>

\* ------------------------------------------------------------------------
\* isRetryableError applied to a value
\* ------------------------------------------------------------------------
NoArg == [fn |-> "none"]

Pending == [done |-> FALSE]
Returned(v) == [done |-> TRUE, val |-> v]

InitHelper == hArg = NoArg /\ hRes = Pending

InitClassify == cErr = NoErr /\ cRes = "none" /\ InitHelper

Classify ==
    /\ cRes = "pending"
    /\ cRes' = (IF isRetryableError(cErr) THEN "retryable" ELSE "terminal")
    /\ UNCHANGED <<cErr, helperVars, retryVars, now, uiVars>>

\* ------------------------------------------------------------------------
\* getClosestAspectRatio (App.tsx, part_001:21-35)
\* ------------------------------------------------------------------------
Abs(x) == IF x < 0 THEN 0 - x ELSE x

\* lines 24-30: the keys of `ratios` in insertion order, the order of
\* Object.keys
RatioKeys == <<"16:9", "4:3", "1:1", "3:4", "9:16">>

\* lines 24-30: the values, as numerator and denominator
ratios ==
    [k \in {"16:9", "4:3", "1:1", "3:4", "9:16"} |->
        CASE k = "16:9" -> <<16, 9>>
          [] k = "4:3"  -> <<4, 3>>
          [] k = "1:1"  -> <<1, 1>>
          [] k = "3:4"  -> <<3, 4>>
          [] k = "9:16" -> <<9, 16>>]

\* line 33: Math.abs(ratios[k] - width / height) as the fraction
\* DistNum / DistDen.  The doubles of the code order two of these distances
\* as the fractions do: for image dimensions two distances that differ do
\* so by more than 1 / (144 * height), far above the rounding of a double.
DistNum(k, width, height) == Abs(ratios[k][1] * height - width * ratios[k][2])
DistDen(k, height) == ratios[k][2] * height

\* line 33 without Math.abs
Closer_Signed(curr, prev, width, height) ==
    (ratios[curr][1] * height - width * ratios[curr][2]) * DistDen(prev, height)
        < (ratios[prev][1] * height - width * ratios[prev][2]) * DistDen(curr, height)

\* line 33: the test of the reducer
Closer(curr, prev, width, height) ==
    DistNum(curr, width, height) * DistDen(prev, height)
        < DistNum(prev, width, height) * DistDen(curr, height)

\* lines 32-34: reduce without an initial value; prev starts as the first
\* key and i is the index of curr
RECURSIVE ReduceRatios(_, _, _, _)
ReduceRatios(prev, i, width, height) ==
    IF i > Len(RatioKeys)
    THEN prev
    ELSE ReduceRatios(IF Closer(RatioKeys[i], prev, width, height)
                      THEN RatioKeys[i] ELSE prev,
                      i + 1, width, height)

\* lines 21-35
getClosestAspectRatio(width, height) ==
    IF width = 0 \/ height = 0
    THEN "1:1"
    ELSE ReduceRatios(RatioKeys[1], 2, width, height)

\* the helper is called on the dimensions getImageDimensions resolved with
\* (lines 908-909, 976-977)
RatioCall ==
    /\ hArg.fn = "getClosestAspectRatio"
    /\ hRes = Pending
    /\ hRes' = Returned(getClosestAspectRatio(hArg.width, hArg.height))
    /\ UNCHANGED <<hArg, cErr, cRes, retryVars, now, uiVars>>

\* ------------------------------------------------------------------------
\* resizeImageForApi (geminiService.ts:30-48)
\* ------------------------------------------------------------------------
Max(a, b) == IF a >= b THEN a ELSE b

\* Math.floor(num / den) in the place of Math.round
Round_Floor(num, den) == num \div den

\* lines 39-40: Math.round(num / den) for num >= 0, halves go up
Round(num, den) == (2 * num + den) \div (2 * den)

\* lines 42-43: the 2d context was obtained and the scaled image encoded
Resized(img, maxPx) ==
    LET maxDim == Max(img.width, img.height)
    IN  [data |-> "jpeg",
         width |-> Round(img.width * maxPx, maxDim),
         height |-> Round(img.height * maxPx, maxDim)]

\* the promise resolves with the data URL it was given
Unchanged(img) == [data |-> "original", width |-> img.width, height |-> img.height]

\* lines 30-48; img.decodes: onload rather than onerror fires; img.ctx:
\* getContext('2d') returns a context
resizeImageForApi(img, maxPx) ==
    IF ~img.decodes
    THEN Unchanged(img)
    ELSE IF Max(img.width, img.height) <= maxPx
    THEN Unchanged(img)
    ELSE IF ~img.ctx
    THEN Unchanged(img)
    ELSE Resized(img, maxPx)

\* the helper is called on an image before it is sent (lines 210, 256, 334, 345)
ResizeCall ==
    /\ hArg.fn = "resizeImageForApi"
    /\ hRes = Pending
    /\ hRes' = Returned(resizeImageForApi(hArg.img, hArg.maxPx))
    /\ UNCHANGED <<hArg, cErr, cRes, retryVars, now, uiVars>>

\* ------------------------------------------------------------------------
\* Application constants
\* ------------------------------------------------------------------------
\* App.tsx: const MAX_HISTORY = 20
MAX_HISTORY == 20

\* services/credits.ts: the per-item cost of each operation
CREDIT_COSTS == [generation |-> 3, upscale |-> 4, analysis |-> 1, styleGeneration |-> 2]

\* services/credits.ts: cost scaled by item count
getCreditCost(type, count) == CREDIT_COSTS[type] * count

\* generateStyleImages(description, count = 3)
StyleCount == 3

Min(a, b) == IF a <= b THEN a ELSE b

\* Array.prototype.slice(0, n)
Slice(seq, n) == SubSeq(seq, 1, Min(n, Len(seq)))

\* ------------------------------------------------------------------------
\* Values of the application state
\* ------------------------------------------------------------------------
Idle == [isGenerating |-> FALSE, message |-> <<>>]
Busy(kind, k, n) == [isGenerating |-> TRUE, message |-> <<kind, k, n>>]

GenIdle ==
    [pc |-> "idle", kind |-> "generation", task |-> "perspective", images |-> <<>>,
     refImages |-> <<>>, prompt |-> "", i |-> 0, attempt |-> 0, results |-> <<>>,
     batchId |-> 0, totalCost |-> 0, error |-> NoErr,
     issued |-> <<>>, debits |-> 0, shown |-> 0]

AnaIdle ==
    [pc |-> "idle", attempt |-> 0, cost |-> 0, result |-> "", error |-> NoErr, debits |-> 0]

RefsIdle ==
    [pc |-> "idle", i |-> 0, attempt |-> 0, images |-> <<>>, cost |-> 0,
     error |-> NoErr, debits |-> 0]

Req(who, idx) == [who |-> who, idx |-> idx]

GenRunning == gen.pc \in {"dims", "call", "sleep", "deduct"}
AnaRunning == ana.pc \in {"call", "sleep", "deduct"}
RefsRunning == refs.pc \in {"call", "sleep", "pause", "deduct"}

\* the failure of the account store's debit call
EDebit == Err("Error", Undef, Str("permission-denied"), NoInner, <<"Missing or insufficient permissions.">>)

\* line 171: activeBaseImage = baseImages[activeIndex]
HasActiveBaseImage == activeIndex < Len(baseImages)

\* line 217: baseImages.map((img, idx) => annotatedImages[idx] || img)
imagesToProcess ==
    [k \in 1..Len(baseImages) |->
        IF (k - 1) \in DOMAIN annotatedImages
        THEN annotatedImages[k - 1] ELSE baseImages[k]]

\* lines 935-942 / 995-1002: the HistoryItem of a finished batch
NewItem(g) ==
    [id |-> g.batchId, taskType |-> g.task,
     prompt |-> (IF g.kind = "upscale" THEN "Upscale Photorealiste" ELSE g.prompt),
     results |-> g.results,
     referenceImages |-> (IF g.kind = "upscale" THEN <<>> ELSE g.refImages)]

\* line 944 / 1003 without the cap
AddToHistory_NoCap(item, prev) == <<item>> \o prev

\* line 944 / 1003 appending instead of prepending
AddToHistory_Append(item, prev) == Slice(prev \o <<item>>, MAX_HISTORY)

\* line 944 / 1003: [newItem, ...prev].slice(0, MAX_HISTORY)
AddToHistory(item, prev) == Slice(<<item>> \o prev, MAX_HISTORY)

\* line 930 / 990 / 243 / 266 without the admin test
ShouldDebit_Always == TRUE

\* line 930 / 990: !isAdmin && user (243 / 266: !isAdmin && uid); the
\* handlers are only mounted for a signed-in user (line 1045)
ShouldDebit == ~isAdmin

\* line 891 / 960 / 235 / 259 admitting every request
InsufficientCredits_Never(cost) == FALSE

\* line 891 / 960 / 235 / 259: !isAdmin && credits < cost
InsufficientCredits(cost) == ~isAdmin /\ credits < cost

\* ------------------------------------------------------------------------
\* handleGenerate / handleUpscale (App.tsx:888-1010)
\* Each operator below fixes gen', loading', history', credits', appError'.
\* ------------------------------------------------------------------------
\* lines 935-944, 950: the batch is added to the history
GenSucceed(g, balance) ==
    /\ gen' = [g EXCEPT !.pc = "done"]
    /\ history' = AddToHistory(NewItem(g), history)
    /\ loading' = Idle
    /\ credits' = balance
    /\ UNCHANGED appError

\* lines 946-948 without the finally of lines 949-951
GenFail_NoFinally(g, e) ==
    /\ gen' = [g EXCEPT !.pc = "failed", !.error = e, !.shown = @ + 1]
    /\ appError' = getHumanReadableError(e)
    /\ UNCHANGED <<loading, history, credits>>

\* lines 946-950 keeping the results produced so far
GenFail_KeepPartial(g, e) ==
    /\ gen' = [g EXCEPT !.pc = "failed", !.error = e, !.shown = @ + 1]
    /\ appError' = getHumanReadableError(e)
    /\ loading' = Idle
    /\ history' = (IF g.results # <<>> THEN AddToHistory(NewItem(g), history) ELSE history)
    /\ UNCHANGED credits

\* lines 946-950: catch and finally
GenFail(g, e) ==
    /\ gen' = [g EXCEPT !.pc = "failed", !.error = e, !.shown = @ + 1]
    /\ appError' = getHumanReadableError(e)
    /\ loading' = Idle
    /\ UNCHANGED <<history, credits>>

\* lines 929-933: after the loop
GenAfterLoop(g, ld) ==
    IF ShouldDebit
    THEN /\ gen' = [g EXCEPT !.pc = "deduct"]
         /\ loading' = ld
         /\ UNCHANGED <<history, credits, appError>>
    ELSE GenSucceed(g, credits)

\* lines 903-908: the loop test, then getImageDimensions is awaited
GenLoop(g, ld) ==
    IF g.i < Len(g.images)
    THEN /\ gen' = [g EXCEPT !.pc = "dims"]
         /\ loading' = Busy(g.kind, g.i + 1, Len(g.images))
         /\ UNCHANGED <<history, credits, appError>>
    ELSE GenAfterLoop(g, ld)

\* lines 896-899 / 965-968
StartBatch(kind, images, p, cost) ==
    LET g == [GenIdle EXCEPT !.kind = kind, !.task = activeTask, !.images = images,
                             !.refImages = refImages, !.prompt = p,
                             !.batchId = now', !.totalCost = cost]
    IN  /\ now' = now + 1
        /\ GenLoop(g, Busy(kind, 0, 0))

\* lines 891-894 / 960-963
RejectBatch(kind, images, cost) ==
    /\ gen' = [GenIdle EXCEPT !.pc = "rejected", !.kind = kind, !.images = images,
                              !.totalCost = cost]
    /\ appError' = "insufficient-credits"
    /\ UNCHANGED <<now, loading, history, credits>>

\* line 614 with the run button never disabled
RunDisabled_Never == FALSE

\* line 614: disabled={loading.isGenerating}
RunDisabled == loading.isGenerating

\* handleRun (lines 212-230) with handleGenerate / handleUpscale up to
\* their first await.  The run button is its only caller (line 613).
HandleRun(limit) ==
    /\ ~RunDisabled
    /\ IF prompt = "" /\ baseImages = <<>>
       THEN /\ workspaceError' = "need-input"
            /\ gen' = [GenIdle EXCEPT !.pc = "noinput"]
            /\ UNCHANGED <<now, loading, history, credits, appError, ops>>
       ELSE /\ UNCHANGED workspaceError
            /\ IF isUpscaleMode
               THEN IF imagesToProcess = <<>>
                    THEN /\ gen' = [GenIdle EXCEPT !.pc = "empty", !.kind = "upscale"]
                         /\ UNCHANGED <<now, loading, history, credits, appError, ops>>
                    ELSE LET cost == getCreditCost("upscale", Len(imagesToProcess)) IN
                         IF InsufficientCredits(cost)
                         THEN RejectBatch("upscale", imagesToProcess, cost) /\ UNCHANGED ops
                         ELSE /\ ops < limit
                              /\ ops' = ops + 1
                              /\ StartBatch("upscale", imagesToProcess, prompt, cost)
               ELSE LET cost == getCreditCost("generation", Len(imagesToProcess)) IN
                    IF InsufficientCredits(cost)
                    THEN RejectBatch("generation", imagesToProcess, cost) /\ UNCHANGED ops
                    ELSE /\ ops < limit
                         /\ ops' = ops + 1
                         /\ StartBatch("generation", imagesToProcess, prompt, cost)
    /\ UNCHANGED <<retryVars, classVars, canvasVars, isAdmin, refImages, activeTask,
                   baseImages, activeIndex, annotatedImages, prompt, isUpscaleMode,
                   stylePrompt, isAnalyzing, isGeneratingRefs, analysisResult,
                   ana, refs, inflight, fails, nFeedback>>

genFrame == <<retryVars, classVars, canvasVars, now, isAdmin, refImages, activeTask, wsVars,
              ana, refs, ops, nFeedback>>

\* lines 903-911 with the images of the batch requested all at once
GenDimsResolved_Parallel ==
    /\ gen.pc = "dims"
    /\ gen' = [gen EXCEPT !.pc = "call", !.attempt = 0, !.issued = Append(@, gen.i)]
    /\ inflight' = inflight \cup {Req("gen", k) : k \in gen.i..(Len(gen.images) - 1)}
    /\ UNCHANGED <<loading, history, credits, appError, fails, genFrame>>

\* lines 908-911: the image is measured; generateArchitecturalView resizes
\* its inputs and retryOperation sends the request (attempt 0)
GenDimsResolved ==
    /\ gen.pc = "dims"
    /\ gen' = [gen EXCEPT !.pc = "call", !.attempt = 0, !.issued = Append(@, gen.i)]
    /\ inflight' = inflight \cup {Req("gen", gen.i)}
    /\ UNCHANGED <<loading, history, credits, appError, fails, genFrame>>

\* lines 537-544, 921-927: the response carries an image
GenCallResolves ==
    /\ gen.pc = "call"
    /\ Req("gen", gen.i) \in inflight
    /\ inflight' = inflight \ {Req("gen", gen.i)}
    /\ LET r == [id |-> <<gen.batchId, gen.i>>, baseImage |-> gen.images[gen.i + 1],
                 resultImage |-> "render", feedback |-> "null"]
       IN  GenLoop([gen EXCEPT !.results = Append(@, r), !.i = @ + 1], loading)
    /\ UNCHANGED <<fails, genFrame>>

\* line 546 / 312: the response carries no image
GenCallNoImage(failLimit) ==
    /\ gen.pc = "call"
    /\ Req("gen", gen.i) \in inflight
    /\ fails < failLimit
    /\ fails' = fails + 1
    /\ inflight' = inflight \ {Req("gen", gen.i)}
    /\ GenFail(gen, ENoImage)
    /\ UNCHANGED genFrame

\* retryOperation lines 135-146 inside the batch: the request is rejected
GenCallRejects(e, failLimit) ==
    /\ gen.pc = "call"
    /\ Req("gen", gen.i) \in inflight
    /\ fails < failLimit
    /\ fails' = fails + 1
    /\ inflight' = inflight \ {Req("gen", gen.i)}
    /\ IF ShouldRetry(gen.attempt, e)
       THEN /\ gen' = [gen EXCEPT !.pc = "sleep", !.error = e]
            /\ UNCHANGED <<loading, history, credits, appError>>
       ELSE GenFail(gen, e)
    /\ UNCHANGED genFrame

\* retryOperation lines 142-143, 132-134: the backoff ends, next attempt
GenWake ==
    /\ gen.pc = "sleep"
    /\ IF LoopCond(gen.attempt + 1)
       THEN /\ gen' = [gen EXCEPT !.pc = "call", !.attempt = @ + 1,
                                  !.issued = Append(@, gen.i)]
            /\ inflight' = inflight \cup {Req("gen", gen.i)}
            /\ UNCHANGED <<loading, history, credits, appError>>
       ELSE /\ GenFail(gen, gen.error)
            /\ UNCHANGED inflight
    /\ UNCHANGED <<fails, genFrame>>

\* lines 931-944: deductCredits resolved, setCredits(prev => prev - totalCost)
GenDeductResolves ==
    /\ gen.pc = "deduct"
    /\ GenSucceed([gen EXCEPT !.debits = @ + 1], credits - gen.totalCost)
    /\ UNCHANGED <<inflight, fails, genFrame>>

\* line 931 rejecting: caught at line 946
GenDeductRejects(failLimit) ==
    /\ gen.pc = "deduct"
    /\ fails < failLimit
    /\ fails' = fails + 1
    /\ GenFail(gen, EDebit)
    /\ UNCHANGED <<inflight, genFrame>>

\* lines 882-885, 1060: the toast expires or is closed
DismissAppError ==
    /\ appError # "null"
    /\ appError' = "null"
    /\ UNCHANGED <<retryVars, classVars, canvasVars, now, credits, isAdmin, history, loading,
                   refImages, activeTask, wsVars, procVars, countVars>>

\* handleClearHistory (lines 1022-1024); the button shows with a history
ClearHistory ==
    /\ history # <<>>
    /\ history' = <<>>
    /\ UNCHANGED <<retryVars, classVars, canvasVars, now, credits, isAdmin, loading, appError,
                   refImages, activeTask, wsVars, procVars, countVars>>

\* handleFeedback (lines 1026-1034)
handleFeedback(prev, batchId, resultId, feedback) ==
    [k \in 1..Len(prev) |->
        IF prev[k].id # batchId THEN prev[k]
        ELSE [prev[k] EXCEPT !.results =
                [j \in 1..Len(prev[k].results) |->
                    IF prev[k].results[j].id = resultId
                    THEN [prev[k].results[j] EXCEPT !.feedback = feedback]
                    ELSE prev[k].results[j]]]]

Feedback(k, j, feedback) ==
    /\ nFeedback < MaxFeedback
    /\ k \in 1..Len(history)
    /\ j \in 1..Len(history[k].results)
    /\ nFeedback' = nFeedback + 1
    /\ history' = handleFeedback(history, history[k].id, history[k].results[j].id, feedback)
    /\ UNCHANGED <<retryVars, classVars, canvasVars, now, credits, isAdmin, loading, appError,
                   refImages, activeTask, wsVars, procVars, ops, fails>>

\* ------------------------------------------------------------------------
\* The canvas editor inside the workspace (part_001:484-490)
\* ------------------------------------------------------------------------
\* CanvasEditor right after mounting for the image b (CanvasEditor.tsx:17-43):
\* the effect has created the Image of the baseImage prop, nothing is
\* loaded, no canvas is rendered.  b = "null": no editor is mounted.
NoComposite == [base |-> "null", layer |-> <<>>, size |-> "default", encoded |-> "none"]

EditorAtMount(b) ==
    /\ baseImage = b
    /\ imgElement = "null"
    /\ imgLoading = (IF b = "null" THEN {} ELSE {b})
    /\ scale = 1000
    /\ offset = <<0, 0>>
    /\ isPanning = FALSE
    /\ tool = "marker"
    /\ isDrawing = FALSE
    /\ undoStack = <<>>
    /\ redoStack = <<>>
    /\ canUndo = FALSE
    /\ canRedo = FALSE
    /\ layer = <<>>
    /\ canvasSize = "default"
    /\ ctxTool = "default"
    /\ raf = FALSE
    /\ segs = 0
    /\ composite = NoComposite
    /\ emitted = FALSE

\* the same as the outcome of a render that mounts the editor for b, or
\* unmounts it
Mount(b) ==
    /\ baseImage' = b
    /\ imgElement' = "null"
    /\ imgLoading' = (IF b = "null" THEN {} ELSE {b})
    /\ scale' = 1000
    /\ offset' = <<0, 0>>
    /\ isPanning' = FALSE
    /\ tool' = "marker"
    /\ isDrawing' = FALSE
    /\ undoStack' = <<>>
    /\ redoStack' = <<>>
    /\ canUndo' = FALSE
    /\ canRedo' = FALSE
    /\ layer' = <<>>
    /\ canvasSize' = "default"
    /\ ctxTool' = "default"
    /\ raf' = FALSE
    /\ segs' = 0
    /\ composite' = NoComposite
    /\ emitted' = FALSE

Mounted == baseImage # "null"

\* part_001:171, 484-487: the editor is rendered when baseImages[activeIndex]
\* exists, under the key `${activeBaseImage}-${activeIndex}`
EditorKey(imgs, idx) ==
    IF idx < Len(imgs) THEN <<imgs[idx + 1], idx>> ELSE <<"null", 0 - 1>>

\* the render after a change of baseImages or activeIndex: React keeps the
\* editor when its key is the same and mounts a new one otherwise
Rerender ==
    IF EditorKey(baseImages', activeIndex') = EditorKey(baseImages, activeIndex)
    THEN UNCHANGED canvasVars
    ELSE Mount(EditorKey(baseImages', activeIndex')[1])

\* line 471: "Tout effacer" above the image strip
ClearImages ==
    /\ baseImages # <<>>
    /\ baseImages' = <<>>
    /\ annotatedImages' = <<>>
    /\ analysisResult' = "null"
    /\ UNCHANGED <<retryVars, classVars, now, appVars, activeIndex, prompt,
                   isUpscaleMode, stylePrompt, isAnalyzing, isGeneratingRefs,
                   workspaceError, procVars, countVars>>
    /\ Rerender

\* the tasks of the sidebar used here (lines 1073-1098)
TaskTypes == {"perspective", "facade"}

\* lines 1074-1098, 1125: setActiveTask remounts the workspace (key), whose
\* state starts again from its useState values (lines 136-157); the App
\* state stays.  The handlers of the unmounted workspace are not followed:
\* the action is used where handleAnalyze / handleGenerateRefs are at rest.
SwitchTask(t) ==
    /\ t # activeTask
    /\ activeTask' = t
    /\ baseImages' = <<>>
    /\ activeIndex' = 0
    /\ annotatedImages' = <<>>
    /\ prompt' = ""
    /\ isUpscaleMode' = FALSE
    /\ stylePrompt' = ""
    /\ isAnalyzing' = FALSE
    /\ isGeneratingRefs' = FALSE
    /\ analysisResult' = "null"
    /\ workspaceError' = "null"
    /\ UNCHANGED <<retryVars, classVars, now, credits, isAdmin, history, loading,
                   appError, refImages, procVars, countVars>>
    /\ Rerender

\* handleImageInput (lines 187-193): a base image is added
AddBaseImage(src, limit) ==
    /\ Len(baseImages) < limit
    /\ baseImages' = Append(baseImages, src)
    /\ analysisResult' = "null"
    /\ UNCHANGED <<retryVars, classVars, now, appVars, activeIndex, annotatedImages,
                   prompt, isUpscaleMode, stylePrompt, isAnalyzing, isGeneratingRefs,
                   workspaceError, procVars, countVars>>
    /\ Rerender

\* removeBaseImage (lines 308-326): the annotated images as re-indexed
reindexedAnnotated(index) ==
    [key \in {k \in DOMAIN annotatedImages : k < index}
             \cup {k - 1 : k \in {j \in DOMAIN annotatedImages : j > index}} |->
        IF key < index /\ key \in DOMAIN annotatedImages
        THEN annotatedImages[key] ELSE annotatedImages[key + 1]]

\* line 325 without the adjustment of activeIndex
Readjusted_Never(n) == activeIndex

\* line 325: if (activeIndex >= newImages.length)
\*               setActiveIndex(Math.max(0, newImages.length - 1))
Readjusted(n) ==
    IF activeIndex >= n THEN (IF n - 1 > 0 THEN n - 1 ELSE 0) ELSE activeIndex

\* removeBaseImage (lines 308-326) from the delete button of thumbnail
\* index (line 503); the strip is rendered with an active image (line 484)
RemoveBaseImage(index) ==
    /\ HasActiveBaseImage
    /\ index \in 0..(Len(baseImages) - 1)
    /\ baseImages' = [k \in 1..(Len(baseImages) - 1) |->
                        IF k - 1 < index THEN baseImages[k] ELSE baseImages[k + 1]]
    /\ annotatedImages' = reindexedAnnotated(index)
    /\ activeIndex' = Readjusted(Len(baseImages) - 1)
    /\ UNCHANGED <<retryVars, classVars, now, appVars, prompt, isUpscaleMode, stylePrompt,
                   isAnalyzing, isGeneratingRefs, analysisResult, workspaceError,
                   procVars, countVars>>
    /\ Rerender

\* line 497: a click on thumbnail idx of the strip
SelectThumbnail(idx) ==
    /\ HasActiveBaseImage
    /\ idx \in 0..(Len(baseImages) - 1)
    /\ activeIndex' = idx
    /\ UNCHANGED <<retryVars, classVars, now, appVars, baseImages, annotatedImages, prompt,
                   isUpscaleMode, stylePrompt, isAnalyzing, isGeneratingRefs,
                   analysisResult, workspaceError, procVars, countVars>>
    /\ Rerender

\* lines 183-184: the batch shown in the middle screen.  The effect of
\* lines 175-181 selects the newest item, and RestoreItem below restores
\* no other, so the selected item is history[0] whenever there is one.
activeHistoryBatch == history[1]

\* lines 730-737: a click on dot idx of the pagination, which is rendered
\* with the result view (lines 655, 663) of a batch of several results
Paginate(idx) ==
    /\ ~loading.isGenerating
    /\ history # <<>>
    /\ activeIndex < Len(activeHistoryBatch.results)
    /\ Len(activeHistoryBatch.results) > 1
    /\ idx \in 0..(Len(activeHistoryBatch.results) - 1)
    /\ activeIndex' = idx
    /\ UNCHANGED <<retryVars, classVars, now, appVars, baseImages, annotatedImages, prompt,
                   isUpscaleMode, stylePrompt, isAnalyzing, isGeneratingRefs,
                   analysisResult, workspaceError, procVars, countVars>>
    /\ Rerender

\* restoreItem (lines 279-291) from a click on the head of the newest
\* batch of the history panel (line 787)
RestoreItem ==
    /\ history # <<>>
    /\ prompt' = history[1].prompt
    /\ IF history[1].results # <<>>
       THEN /\ baseImages' = [k \in 1..Len(history[1].results) |->
                                history[1].results[k].baseImage]
            /\ annotatedImages' = <<>>
            /\ analysisResult' = "null"
            /\ activeIndex' = 0
       ELSE UNCHANGED <<baseImages, annotatedImages, analysisResult, activeIndex>>
    /\ UNCHANGED <<retryVars, classVars, now, appVars, isUpscaleMode, stylePrompt,
                   isAnalyzing, isGeneratingRefs, workspaceError, procVars, countVars>>
    /\ Rerender

\* line 605: the prompt is typed
SetPrompt(p) ==
    /\ p # prompt
    /\ prompt' = p
    /\ UNCHANGED <<retryVars, classVars, canvasVars, now, appVars, baseImages, activeIndex,
                   annotatedImages, isUpscaleMode, stylePrompt, isAnalyzing,
                   isGeneratingRefs, analysisResult, workspaceError, procVars, countVars>>

\* line 581: the upscale switch
ToggleUpscaleMode ==
    /\ isUpscaleMode' = ~isUpscaleMode
    /\ UNCHANGED <<retryVars, classVars, canvasVars, now, appVars, baseImages, activeIndex,
                   annotatedImages, prompt, stylePrompt, isAnalyzing,
                   isGeneratingRefs, analysisResult, workspaceError, procVars, countVars>>

\* ------------------------------------------------------------------------
\* handleAnalyze (App.tsx:232-254) with analyzeArchitecturalImage
\* (geminiService.ts:203-243)
\* ------------------------------------------------------------------------
anaFrame == <<retryVars, classVars, canvasVars, now, isAdmin, history, loading, appError, refImages,
              activeTask, baseImages, activeIndex, annotatedImages, prompt, isUpscaleMode,
              stylePrompt, isGeneratingRefs, gen, refs, nFeedback>>

\* lines 247, 252
AnaSucceed(a, balance) ==
    /\ ana' = [a EXCEPT !.pc = "done"]
    /\ analysisResult' = a.result
    /\ isAnalyzing' = FALSE
    /\ credits' = balance

\* lines 248-252
AnaFail(a, e) ==
    /\ ana' = [a EXCEPT !.pc = "failed", !.error = e]
    /\ analysisResult' = <<"analysis-error", getHumanReadableError(e)>>
    /\ isAnalyzing' = FALSE
    /\ UNCHANGED credits

\* lines 232-242; the button shows with an active image and is disabled
\* while isAnalyzing (lines 483, 523)
HandleAnalyze(limit) ==
    /\ HasActiveBaseImage
    /\ ~isAnalyzing
    /\ LET cost == getCreditCost("analysis", 1) IN
       IF InsufficientCredits(cost)
       THEN /\ workspaceError' = "insufficient-credits"
            /\ ana' = [AnaIdle EXCEPT !.pc = "rejected", !.cost = cost]
            /\ UNCHANGED <<isAnalyzing, analysisResult, inflight, ops>>
       ELSE /\ ops < limit
            /\ ops' = ops + 1
            /\ isAnalyzing' = TRUE
            /\ analysisResult' = "null"
            /\ ana' = [AnaIdle EXCEPT !.pc = "call", !.cost = cost]
            /\ inflight' = inflight \cup {Req("ana", 0)}
            /\ UNCHANGED workspaceError
    /\ UNCHANGED <<credits, fails, anaFrame>>

\* geminiService.ts:242 and App.tsx:243-247; text is response.text
AnaCallResolves(text) ==
    /\ ana.pc = "call"
    /\ Req("ana", 0) \in inflight
    /\ inflight' = inflight \ {Req("ana", 0)}
    /\ LET a == [ana EXCEPT !.result = IF text # "" THEN text ELSE "Impossible d'analyser l'image."]
       IN  IF ShouldDebit
           THEN /\ ana' = [a EXCEPT !.pc = "deduct"]
                /\ UNCHANGED <<analysisResult, isAnalyzing, credits>>
           ELSE AnaSucceed(a, credits)
    /\ UNCHANGED <<workspaceError, ops, fails, anaFrame>>

AnaCallRejects(e, failLimit) ==
    /\ ana.pc = "call"
    /\ Req("ana", 0) \in inflight
    /\ fails < failLimit
    /\ fails' = fails + 1
    /\ inflight' = inflight \ {Req("ana", 0)}
    /\ IF ShouldRetry(ana.attempt, e)
       THEN /\ ana' = [ana EXCEPT !.pc = "sleep", !.error = e]
            /\ UNCHANGED <<analysisResult, isAnalyzing, credits>>
       ELSE AnaFail(ana, e)
    /\ UNCHANGED <<workspaceError, ops, anaFrame>>

AnaWake ==
    /\ ana.pc = "sleep"
    /\ IF LoopCond(ana.attempt + 1)
       THEN /\ ana' = [ana EXCEPT !.pc = "call", !.attempt = @ + 1]
            /\ inflight' = inflight \cup {Req("ana", 0)}
            /\ UNCHANGED <<analysisResult, isAnalyzing, credits>>
       ELSE /\ AnaFail(ana, ana.error)
            /\ UNCHANGED inflight
    /\ UNCHANGED <<workspaceError, ops, fails, anaFrame>>

\* lines 244-247: deductCredits resolved, onCreditsUpdate(-cost)
AnaDeductResolves ==
    /\ ana.pc = "deduct"
    /\ AnaSucceed([ana EXCEPT !.debits = @ + 1], credits + (0 - ana.cost))
    /\ UNCHANGED <<workspaceError, inflight, ops, fails, anaFrame>>

AnaDeductRejects(failLimit) ==
    /\ ana.pc = "deduct"
    /\ fails < failLimit
    /\ fails' = fails + 1
    /\ AnaFail(ana, EDebit)
    /\ UNCHANGED <<workspaceError, inflight, ops, anaFrame>>

\* ------------------------------------------------------------------------
\* handleGenerateRefs (App.tsx:256-278) with generateStyleImages
\* (geminiService.ts:160-198)
\* ------------------------------------------------------------------------
refsFrame == <<retryVars, classVars, canvasVars, now, isAdmin, history, loading, appError,
               activeTask, baseImages, activeIndex, annotatedImages, prompt, isUpscaleMode,
               stylePrompt, isAnalyzing, analysisResult, gen, ana, nFeedback>>

\* lines 270-271, 276
RefsSucceed(r, balance) ==
    /\ refs' = [r EXCEPT !.pc = "done"]
    /\ refImages' = Slice(refImages \o r.images, 3)
    /\ isGeneratingRefs' = FALSE
    /\ credits' = balance
    /\ UNCHANGED workspaceError

\* lines 272-276
RefsFail(r, e) ==
    /\ refs' = [r EXCEPT !.pc = "failed", !.error = e]
    /\ workspaceError' = "refs-failed"
    /\ isGeneratingRefs' = FALSE
    /\ UNCHANGED <<refImages, credits>>

\* lines 256-265; the button is disabled without a style prompt and while
\* it shows its loading state (line 440)
HandleGenerateRefs(limit) ==
    /\ stylePrompt # ""
    /\ ~isGeneratingRefs
    /\ LET cost == getCreditCost("styleGeneration", StyleCount) IN
       IF InsufficientCredits(cost)
       THEN /\ workspaceError' = "insufficient-credits"
            /\ refs' = [RefsIdle EXCEPT !.pc = "rejected", !.cost = cost]
            /\ UNCHANGED <<isGeneratingRefs, inflight, ops>>
       ELSE /\ ops < limit
            /\ ops' = ops + 1
            /\ isGeneratingRefs' = TRUE
            /\ refs' = [RefsIdle EXCEPT !.pc = "call", !.cost = cost]
            /\ inflight' = inflight \cup {Req("refs", 0)}
            /\ UNCHANGED workspaceError
    /\ UNCHANGED <<refImages, credits, fails, refsFrame>>

\* geminiService.ts:182-197 and App.tsx:266-271; n inline images came back
RefsCallResolves(n) ==
    /\ refs.pc = "call"
    /\ Req("refs", refs.i) \in inflight
    /\ inflight' = inflight \ {Req("refs", refs.i)}
    /\ LET r == [refs EXCEPT !.images = @ \o [k \in 1..n |-> "style"]] IN
       IF refs.i < StyleCount - 1
       THEN /\ refs' = [r EXCEPT !.pc = "pause"]
            /\ UNCHANGED <<refImages, isGeneratingRefs, credits, workspaceError>>
       ELSE IF ShouldDebit
       THEN /\ refs' = [r EXCEPT !.pc = "deduct"]
            /\ UNCHANGED <<refImages, isGeneratingRefs, credits, workspaceError>>
       ELSE RefsSucceed(r, credits)
    /\ UNCHANGED <<ops, fails, refsFrame>>

\* geminiService.ts:193, 170-171: the 1000 ms pause ends, next request
RefsPauseEnds ==
    /\ refs.pc = "pause"
    /\ refs' = [refs EXCEPT !.pc = "call", !.i = @ + 1, !.attempt = 0]
    /\ inflight' = inflight \cup {Req("refs", refs.i + 1)}
    /\ UNCHANGED <<refImages, isGeneratingRefs, credits, workspaceError, ops, fails, refsFrame>>

RefsCallRejects(e, failLimit) ==
    /\ refs.pc = "call"
    /\ Req("refs", refs.i) \in inflight
    /\ fails < failLimit
    /\ fails' = fails + 1
    /\ inflight' = inflight \ {Req("refs", refs.i)}
    /\ IF ShouldRetry(refs.attempt, e)
       THEN /\ refs' = [refs EXCEPT !.pc = "sleep", !.error = e]
            /\ UNCHANGED <<refImages, isGeneratingRefs, credits, workspaceError>>
       ELSE RefsFail(refs, e)
    /\ UNCHANGED <<ops, refsFrame>>

RefsWake ==
    /\ refs.pc = "sleep"
    /\ IF LoopCond(refs.attempt + 1)
       THEN /\ refs' = [refs EXCEPT !.pc = "call", !.attempt = @ + 1]
            /\ inflight' = inflight \cup {Req("refs", refs.i)}
            /\ UNCHANGED <<refImages, isGeneratingRefs, credits, workspaceError>>
       ELSE /\ RefsFail(refs, refs.error)
            /\ UNCHANGED inflight
    /\ UNCHANGED <<ops, fails, refsFrame>>

\* lines 267-271: deductCredits resolved, onCreditsUpdate(-cost)
RefsDeductResolves ==
    /\ refs.pc = "deduct"
    /\ RefsSucceed([refs EXCEPT !.debits = @ + 1], credits + (0 - refs.cost))
    /\ UNCHANGED <<inflight, ops, fails, refsFrame>>

RefsDeductRejects(failLimit) ==
    /\ refs.pc = "deduct"
    /\ fails < failLimit
    /\ fails' = fails + 1
    /\ RefsFail(refs, EDebit)
    /\ UNCHANGED <<inflight, ops, refsFrame>>

\* lines 159-162, 640: the workspace message expires or is closed
DismissWorkspaceError ==
    /\ workspaceError # "null"
    /\ workspaceError' = "null"
    /\ UNCHANGED <<retryVars, classVars, canvasVars, now, appVars, baseImages, activeIndex,
                   annotatedImages, prompt, isUpscaleMode, stylePrompt, isAnalyzing,
                   isGeneratingRefs, analysisResult, procVars, countVars>>

\* ------------------------------------------------------------------------
\* CanvasEditor (components/CanvasEditor.tsx)
\* scale is kept in thousandths; the raster is the sequence of its marks,
\* one per stroked segment, named after the tool that drew it.
\* ------------------------------------------------------------------------
outsideCanvas == <<retryVars, now, classVars, appVars, wsRest, procVars, countVars>>

\* line 15
MAX_UNDO_STEPS == 20

\* line 21 / 289: useState(1), setScale(1)
ScaleOne == 1000
\* line 268: the clamp Math.min(Math.max(0.1, ...), 10)
ScaleMin == 100
ScaleMax == 10000

Origin == <<0, 0>>
Offsets == {Origin, <<40, -25>>}
Images == {"A", "B"}
Tools == {"pencil", "marker", "eraser", "pan"}
\* e.deltaY of the wheel events
DeltaYs == {-2000, -100, 400}

\* lines 344-349: the canvas element is rendered once imgElement is set
HasCanvas == imgElement # "null"

\* line 19-20: the imgElement seen by the callbacks of the first render
FirstRenderImg == "null"

\* pop taking the oldest entry
Last_Oldest(seq) == seq[1]

\* lines 86, 101: pop() returns the newest entry
Last(seq) == seq[Len(seq)]
Front(seq) == SubSeq(seq, 1, Len(seq) - 1)

\* lines 137-143: the base image with the canvas drawn over it, as a PNG
Composite(img, lyr) ==
    [base |-> img, layer |-> lyr, size |-> canvasSize, encoded |-> "png"]

\* line 62: onUpdate(baseImage), the prop as it is
Original(b) == [base |-> b, layer |-> <<>>, size |-> b, encoded |-> "original"]

\* part_001:489: the onUpdate prop the workspace passes,
\* setAnnotatedImages(prev => ({...prev, [activeIndex]: newImg}))
onUpdate(newImg) ==
    [i \in DOMAIN annotatedImages \cup {activeIndex} |->
        IF i = activeIndex THEN newImg ELSE annotatedImages[i]]

\* lines 130-145: triggerUpdate as closed over the imgElement `img`; the
\* callers have checked canvasRef.current; loaded images are complete
triggerUpdate(img, lyr) ==
    IF img = "null"
    THEN /\ emitted' = FALSE
         /\ UNCHANGED <<composite, annotatedImages>>
    ELSE /\ emitted' = TRUE
         /\ composite' = Composite(img, lyr)
         /\ annotatedImages' = onUpdate(composite')

\* lines 76-77 dropping the newest snapshot when the stack is full
Push_DropNewest(stack, snapshot) ==
    IF Len(stack) >= MAX_UNDO_STEPS THEN stack ELSE Append(stack, snapshot)

\* lines 76-77: push, then shift when longer than MAX_UNDO_STEPS
Push(stack, snapshot) ==
    LET pushed == Append(stack, snapshot)
    IN  IF Len(pushed) > MAX_UNDO_STEPS THEN Tail(pushed) ELSE pushed

\* line 78 keeping the redo stack
ClearedRedo_Kept == redoStack

\* line 78: redoStackRef.current = []
ClearedRedo == <<>>

\* saveSnapshot (lines 70-81); fixes undoStack', redoStack', canUndo', canRedo'
saveSnapshot ==
    IF ~HasCanvas
    THEN UNCHANGED stackVars
    ELSE /\ undoStack' = Push(undoStack, layer)
         /\ redoStack' = ClearedRedo
         /\ canUndo' = TRUE
         /\ canRedo' = FALSE

\* lines 209-211, 222-224, 200-201: what one stroked segment does to the raster
Draw(lyr, t) ==
    IF t = "eraser"
    THEN (IF lyr = <<>> THEN <<>> ELSE Front(lyr))
    ELSE Append(lyr, t)

\* the effect of lines 40-45 when the parent passes another image
SetBaseImage(b) ==
    /\ Mounted
    /\ b # baseImage
    /\ baseImage' = b
    /\ imgLoading' = imgLoading \cup {b}
    /\ emitted' = FALSE
    /\ UNCHANGED <<imgElement, viewVars, stackVars, drawVars, composite, annotatedImages, outsideCanvas>>

\* img.onload without lines 47-53: the view and the history are kept
ImgLoaded_KeepHistory(b) ==
    /\ b \in imgLoading
    /\ imgLoading' = imgLoading \ {b}
    /\ imgElement' = b
    /\ IF HasCanvas
       THEN /\ canvasSize' = b
            /\ layer' = <<>>
            /\ ctxTool' = "default"
            /\ composite' = Original(b)
            /\ annotatedImages' = onUpdate(composite')
            /\ emitted' = TRUE
       ELSE /\ emitted' = FALSE
            /\ UNCHANGED <<canvasSize, layer, ctxTool, composite, annotatedImages>>
    /\ UNCHANGED <<baseImage, viewVars, stackVars, tool, isDrawing, raf, segs,
                   outsideCanvas>>

\* img.onload (lines 44-64)
ImgLoaded(b) ==
    /\ b \in imgLoading
    /\ imgLoading' = imgLoading \ {b}
    /\ imgElement' = b
    /\ scale' = ScaleOne
    /\ offset' = Origin
    /\ undoStack' = <<>>
    /\ redoStack' = <<>>
    /\ canUndo' = FALSE
    /\ canRedo' = FALSE
    /\ IF HasCanvas
       THEN /\ canvasSize' = b
            /\ layer' = <<>>
            /\ ctxTool' = "default"
            /\ composite' = Original(b)
            /\ annotatedImages' = onUpdate(composite')
            /\ emitted' = TRUE
       ELSE /\ emitted' = FALSE
            /\ UNCHANGED <<canvasSize, layer, ctxTool, composite, annotatedImages>>
    /\ UNCHANGED <<baseImage, isPanning, tool, isDrawing, raf, segs, outsideCanvas>>

\* img.onerror (lines 65-67)
ImgError(b) ==
    /\ b \in imgLoading
    /\ imgLoading' = imgLoading \ {b}
    /\ emitted' = FALSE
    /\ UNCHANGED <<baseImage, imgElement, viewVars, stackVars, drawVars, composite, annotatedImages,
                   outsideCanvas>>

\* lines 295-301, 329: the tool buttons
SetTool(t) ==
    /\ Mounted
    /\ t # tool
    /\ tool' = t
    /\ emitted' = FALSE
    /\ UNCHANGED <<loadVars, viewVars, stackVars, isDrawing, layer, canvasSize,
                   ctxTool, raf, segs, composite, annotatedImages, outsideCanvas>>

\* undo without the pop of line 91: the snapshot restored stays on the stack
Undo_KeepTop(quiet) ==
    /\ Mounted
    /\ quiet => ~isDrawing
    /\ IF ~HasCanvas \/ undoStack = <<>>
       THEN /\ emitted' = FALSE
            /\ UNCHANGED <<stackVars, layer, composite, annotatedImages>>
       ELSE /\ redoStack' = Append(redoStack, layer)
            /\ layer' = Last(undoStack)
            /\ undoStack' = undoStack
            /\ triggerUpdate(FirstRenderImg, layer')
            /\ canUndo' = (undoStack' # <<>>)
            /\ canRedo' = TRUE
    /\ UNCHANGED <<loadVars, viewVars, tool, isDrawing, canvasSize, ctxTool, raf, segs,
                   outsideCanvas>>

\* undo (lines 83-96), from the button or Ctrl+Z; its triggerUpdate is the
\* one of the first render (useCallback with no dependencies, line 96).
\* A quiet user leaves the buttons alone during a drawing gesture.
Undo(quiet) ==
    /\ Mounted
    /\ quiet => ~isDrawing
    /\ IF ~HasCanvas \/ undoStack = <<>>
       THEN /\ emitted' = FALSE
            /\ UNCHANGED <<stackVars, layer, composite, annotatedImages>>
       ELSE /\ redoStack' = Append(redoStack, layer)
            /\ layer' = Last(undoStack)
            /\ undoStack' = Front(undoStack)
            /\ triggerUpdate(FirstRenderImg, layer')
            /\ canUndo' = (undoStack' # <<>>)
            /\ canRedo' = TRUE
    /\ UNCHANGED <<loadVars, viewVars, tool, isDrawing, canvasSize, ctxTool, raf, segs,
                   outsideCanvas>>

\* redo (lines 98-111), from the button, Ctrl+Y or Ctrl+Shift+Z
Redo(quiet) ==
    /\ Mounted
    /\ quiet => ~isDrawing
    /\ IF ~HasCanvas \/ redoStack = <<>>
       THEN /\ emitted' = FALSE
            /\ UNCHANGED <<stackVars, layer, composite, annotatedImages>>
       ELSE /\ undoStack' = Append(undoStack, layer)
            /\ layer' = Last(redoStack)
            /\ redoStack' = Front(redoStack)
            /\ triggerUpdate(FirstRenderImg, layer')
            /\ canUndo' = TRUE
            /\ canRedo' = (redoStack' # <<>>)
    /\ UNCHANGED <<loadVars, viewVars, tool, isDrawing, canvasSize, ctxTool, raf, segs,
                   outsideCanvas>>

\* startAction taking the snapshot of line 190 before the test of line 181
StartAction_SnapshotFirst(mod, snapLimit, single) ==
    /\ Mounted
    /\ single => ~isDrawing /\ ~isPanning
    /\ Len(undoStack) + Len(redoStack) < snapLimit
    /\ saveSnapshot
    /\ IF tool = "pan" \/ mod
       THEN /\ isPanning' = TRUE
            /\ UNCHANGED <<isDrawing, ctxTool, segs>>
       ELSE /\ isDrawing' = TRUE
            /\ segs' = 0
            /\ ctxTool' = (IF HasCanvas THEN tool ELSE ctxTool)
            /\ UNCHANGED isPanning
    /\ emitted' = FALSE
    /\ UNCHANGED <<loadVars, scale, offset, tool, layer, canvasSize, raf, composite, annotatedImages,
                   outsideCanvas>>

\* startAction (lines 176-221); mod: middle button, Alt or Ctrl is held.
\* A drawing gesture starts while the stacks hold fewer than snapLimit
\* snapshots; a single pointer presses only when no gesture is under way.
StartAction(mod, snapLimit, single) ==
    /\ Mounted
    /\ single => ~isDrawing /\ ~isPanning
    /\ IF tool = "pan" \/ mod
       THEN /\ isPanning' = TRUE
            /\ UNCHANGED <<stackVars, isDrawing, ctxTool, segs>>
       ELSE /\ Len(undoStack) + Len(redoStack) < snapLimit
            /\ saveSnapshot
            /\ isDrawing' = TRUE
            /\ segs' = 0
            /\ ctxTool' = (IF HasCanvas THEN tool ELSE ctxTool)
            /\ UNCHANGED isPanning
    /\ emitted' = FALSE
    /\ UNCHANGED <<loadVars, scale, offset, tool, layer, canvasSize, raf, composite, annotatedImages,
                   outsideCanvas>>

\* the raster and the snapshots the stacks hold
Rasters ==
    {layer} \cup {undoStack[k] : k \in 1..Len(undoStack)}
            \cup {redoStack[k] : k \in 1..Len(redoStack)}

\* moveAction without the test of line 236: every move requests a frame
MoveAction_NoCoalesce(off, markLimit, segLimit) ==
    /\ Mounted
    /\ IF isPanning
       THEN /\ offset' = off
            /\ UNCHANGED <<raf, segs>>
       ELSE IF isDrawing /\ HasCanvas
            THEN /\ \A r \in Rasters : Len(r) < markLimit
                 /\ segs < segLimit
                 /\ raf' = TRUE
                 /\ segs' = segs + 1
                 /\ UNCHANGED offset
            ELSE UNCHANGED <<offset, raf, segs>>
    /\ emitted' = FALSE
    /\ UNCHANGED <<loadVars, scale, isPanning, stackVars, tool, isDrawing, layer,
                   canvasSize, ctxTool, composite, annotatedImages, outsideCanvas>>

\* moveAction (lines 223-250); off: where the pointer drags the view.
\* The pointer asks for a segment while every raster has fewer than
\* markLimit marks and the gesture fewer than segLimit segments.
MoveAction(off, markLimit, segLimit) ==
    /\ Mounted
    /\ IF isPanning
       THEN /\ offset' = off
            /\ UNCHANGED <<raf, segs>>
       ELSE IF isDrawing /\ HasCanvas
            THEN /\ \A r \in Rasters : Len(r) < markLimit
                 /\ segs < segLimit
                 /\ raf' = TRUE
                 /\ segs' = (IF raf THEN segs ELSE segs + 1)
                 /\ UNCHANGED offset
            ELSE UNCHANGED <<offset, raf, segs>>
    /\ emitted' = FALSE
    /\ UNCHANGED <<loadVars, scale, isPanning, stackVars, tool, isDrawing, layer,
                   canvasSize, ctxTool, composite, annotatedImages, outsideCanvas>>

\* the requestAnimationFrame callback (lines 235-243)
RafFires ==
    /\ Mounted
    /\ raf
    /\ raf' = FALSE
    /\ layer' = (IF HasCanvas THEN Draw(layer, ctxTool) ELSE layer)
    /\ emitted' = FALSE
    /\ UNCHANGED <<loadVars, viewVars, stackVars, tool, isDrawing, canvasSize, ctxTool,
                   segs, composite, annotatedImages, outsideCanvas>>

\* stopAction (lines 252-259), on mouse up, mouse leave or touch end.  A
\* patient pointer ends a drawing gesture only after its segment is drawn.
StopAction(patient) ==
    /\ Mounted
    /\ patient /\ isDrawing => ~raf /\ segs >= 1
    /\ raf' = FALSE
    /\ IF isDrawing
       THEN /\ isDrawing' = FALSE
            /\ IF HasCanvas
               THEN triggerUpdate(imgElement, layer)
               ELSE emitted' = FALSE /\ UNCHANGED <<composite, annotatedImages>>
       ELSE /\ emitted' = FALSE
            /\ UNCHANGED <<isDrawing, composite, annotatedImages>>
    /\ isPanning' = FALSE
    /\ UNCHANGED <<loadVars, scale, offset, stackVars, tool, layer, canvasSize, ctxTool,
                   segs, outsideCanvas>>

\* handleWheel without the clamp of line 267
HandleWheel_NoClamp(alt, deltaY) ==
    /\ Mounted
    /\ IF alt
       THEN scale' = scale - ((scale * deltaY) \div 200)
       ELSE UNCHANGED scale
    /\ emitted' = FALSE
    /\ UNCHANGED <<loadVars, offset, isPanning, stackVars, drawVars, composite, annotatedImages,
                   outsideCanvas>>

\* handleWheel (lines 261-274); alt: e.altKey
HandleWheel(alt, deltaY) ==
    /\ Mounted
    /\ IF alt
       THEN LET raw == scale - ((scale * deltaY) \div 200)
            IN  scale' = Min(IF raw < ScaleMin THEN ScaleMin ELSE raw, ScaleMax)
       ELSE UNCHANGED scale
    /\ emitted' = FALSE
    /\ UNCHANGED <<loadVars, offset, isPanning, stackVars, drawVars, composite, annotatedImages,
                   outsideCanvas>>

\* clearCanvas with lines 284 and 286 swapped: the snapshot is taken of the
\* cleared canvas
ClearCanvas_ClearFirst(snapLimit) ==
    /\ Mounted
    /\ IF ~HasCanvas
       THEN /\ emitted' = FALSE
            /\ UNCHANGED <<stackVars, layer, composite, annotatedImages>>
       ELSE /\ Len(undoStack) + Len(redoStack) < snapLimit
            /\ undoStack' = Push(undoStack, <<>>)
            /\ redoStack' = ClearedRedo
            /\ canUndo' = TRUE
            /\ canRedo' = FALSE
            /\ layer' = <<>>
            /\ triggerUpdate(imgElement, layer')
    /\ UNCHANGED <<loadVars, viewVars, tool, isDrawing, canvasSize, ctxTool, raf, segs,
                   outsideCanvas>>

\* clearCanvas (lines 282-287)
ClearCanvas(snapLimit) ==
    /\ Mounted
    /\ IF ~HasCanvas
       THEN /\ emitted' = FALSE
            /\ UNCHANGED <<stackVars, layer, composite, annotatedImages>>
       ELSE /\ Len(undoStack) + Len(redoStack) < snapLimit
            /\ saveSnapshot
            /\ layer' = <<>>
            /\ triggerUpdate(imgElement, layer')
    /\ UNCHANGED <<loadVars, viewVars, tool, isDrawing, canvasSize, ctxTool, raf, segs,
                   outsideCanvas>>

\* resetView (line 289)
ResetView ==
    /\ Mounted
    /\ scale' = ScaleOne
    /\ offset' = Origin
    /\ emitted' = FALSE
    /\ UNCHANGED <<loadVars, isPanning, stackVars, drawVars, composite, annotatedImages, outsideCanvas>>

\* ------------------------------------------------------------------------
\* Specifications
\* ------------------------------------------------------------------------
\* the editor mounted for image "A"
InitCanvas == EditorAtMount("A")

\* the workspace after mounting (lines 136-157) over the App state of a new
\* session, given the base images it holds
InitWorkspace(imgs) ==
    /\ EditorAtMount(IF imgs = <<>> THEN "null" ELSE imgs[1])
    /\ credits = StartCredits
    /\ isAdmin = FALSE
    /\ history = <<>>
    /\ loading = Idle
    /\ appError = "null"
    /\ refImages = <<>>
    /\ activeTask = "perspective"
    /\ baseImages = imgs
    /\ activeIndex = 0
    /\ annotatedImages = <<>>
    /\ prompt = ""
    /\ isUpscaleMode = FALSE
    /\ stylePrompt = ""
    /\ isAnalyzing = FALSE
    /\ isGeneratingRefs = FALSE
    /\ analysisResult = "null"
    /\ workspaceError = "null"
    /\ gen = GenIdle
    /\ ana = AnaIdle
    /\ refs = RefsIdle
    /\ inflight = {}
    /\ ops = 0
    /\ fails = 0
    /\ nFeedback = 0

InitUi == InitWorkspace(<<>>)

Init == InitRetry /\ now = 0 /\ InitClassify /\ InitUi

Next ==
    \/ RetryLoop
    \/ \E v \in Values : RetryOpResolves(v)
    \/ \E e \in RetryableErrors \cup TerminalErrors, j \in Jitter : RetryOpRejects(e, j)
    \/ \E late \in Lateness : RetryWake(late)

Spec == Init /\ [][Next]_vars

InitClassifySpec ==
    /\ InitRetry /\ now = 0 /\ InitUi
    /\ cErr \in ErrorUniverse
    /\ cRes = "pending"
    /\ InitHelper

NextClassify == Classify

SpecClassify == InitClassifySpec /\ [][NextClassify]_vars

\* getClosestAspectRatio on small dimensions, which hold every ordering of
\* width / height against the five ratios and their midpoints, on a missing
\* dimension, and on a 4000 x 2000 image
MaxDim == 18

InitRatio ==
    /\ InitRetry /\ now = 0 /\ InitUi
    /\ cErr = NoErr /\ cRes = "none"
    /\ hArg \in {[fn |-> "getClosestAspectRatio", width |-> w, height |-> h] :
                    w \in 0..MaxDim, h \in 0..MaxDim}
                 \cup {[fn |-> "getClosestAspectRatio", width |-> 4000, height |-> 2000]}
    /\ hRes = Pending

NextRatio == RatioCall

SpecRatio == InitRatio /\ [][NextRatio]_vars

\* resizeImageForApi on images of up to MaxEdge pixels a side, whole or
\* corrupt, under small values of maxPx
MaxEdge == 9
MaxPxs == {3, 4}

InitResize ==
    /\ InitRetry /\ now = 0 /\ InitUi
    /\ cErr = NoErr /\ cRes = "none"
    /\ hArg \in {[fn |-> "resizeImageForApi", maxPx |-> m,
                   img |-> [width |-> w, height |-> h, decodes |-> d, ctx |-> c]] :
                    m \in MaxPxs, w \in 1..MaxEdge, h \in 1..MaxEdge,
                    d \in BOOLEAN, c \in BOOLEAN}
    /\ hRes = Pending

NextResize == ResizeCall

SpecResize == InitResize /\ [][NextResize]_vars

\* the workspace as the user prepared it: images loaded, prompt typed
ImageLists == {<<>>, <<"A">>, <<"A", "B">>}

InitApp ==
    /\ InitRetry /\ now = 0 /\ InitClassify
    /\ credits = StartCredits
    /\ isAdmin \in BOOLEAN
    /\ history = <<>>
    /\ loading = Idle
    /\ appError = "null"
    /\ refImages = <<>>
    /\ activeTask = "perspective"
    /\ baseImages \in {l \in ImageLists : Len(l) <= MaxImages}
    /\ EditorAtMount(IF baseImages = <<>> THEN "null" ELSE baseImages[1])
    /\ activeIndex = 0
    /\ annotatedImages = <<>>
    /\ prompt \in {"", "p"}
    /\ isUpscaleMode \in BOOLEAN
    /\ stylePrompt = "s"
    /\ isAnalyzing = FALSE
    /\ isGeneratingRefs = FALSE
    /\ analysisResult = "null"
    /\ workspaceError = "null"
    /\ gen = GenIdle
    /\ ana = AnaIdle
    /\ refs = RefsIdle
    /\ inflight = {}
    /\ ops = 0
    /\ fails = 0
    /\ nFeedback = 0

NextApp ==
    \/ HandleRun(MaxOps)
    \/ GenDimsResolved
    \/ GenCallResolves
    \/ GenCallNoImage(MaxAppFail)
    \/ \E e \in {E503, EInvalid} : GenCallRejects(e, MaxAppFail)
    \/ GenWake
    \/ GenDeductResolves
    \/ GenDeductRejects(MaxAppFail)
    \/ HandleAnalyze(MaxOps)
    \/ \E text \in {"critique", ""} : AnaCallResolves(text)
    \/ AnaCallRejects(E503, MaxAppFail)
    \/ AnaWake
    \/ AnaDeductResolves
    \/ AnaDeductRejects(MaxAppFail)
    \/ HandleGenerateRefs(MaxOps)
    \/ \E n \in 0..1 : RefsCallResolves(n)
    \/ RefsPauseEnds
    \/ \E e \in {E503, EInvalid} : RefsCallRejects(e, MaxAppFail)
    \/ RefsWake
    \/ RefsDeductResolves
    \/ RefsDeductRejects(MaxAppFail)
    \/ DismissAppError
    \/ DismissWorkspaceError
    \/ ClearImages

SpecApp == InitApp /\ [][NextApp]_vars

\* one batch handler on its own, with enough failures to exhaust the retries
NextBatch ==
    \/ HandleRun(MaxOps)
    \/ GenDimsResolved
    \/ GenCallResolves
    \/ GenCallNoImage(MaxFail)
    \/ \E e \in {E503, E429, EInvalid} : GenCallRejects(e, MaxFail)
    \/ GenWake
    \/ GenDeductResolves
    \/ GenDeductRejects(MaxFail)
    \/ DismissAppError
    \/ ClearImages

SpecBatch == InitApp /\ [][NextBatch]_vars

\* what the batch awaits settles: the measuring of an image (part_001:
\* 37-45 resolves on load and on error), the request, the backoff timer
\* and the debit
GenCallSettles ==
    \/ GenCallResolves
    \/ GenCallNoImage(MaxFail)
    \/ \E e \in {E503, E429, EInvalid} : GenCallRejects(e, MaxFail)

GenDeductSettles == GenDeductResolves \/ GenDeductRejects(MaxFail)

FairBatch ==
    /\ WF_vars(GenDimsResolved)
    /\ WF_vars(GenCallSettles)
    /\ WF_vars(GenWake)
    /\ WF_vars(GenDeductSettles)

SpecBatchFair == InitApp /\ [][NextBatch]_vars /\ FairBatch

\* a long session of successful batches, with the history panel in use
InitHistory ==
    /\ InitRetry /\ now = 0 /\ InitClassify /\ InitCanvas
    /\ credits = StartCredits
    /\ isAdmin \in BOOLEAN
    /\ history = <<>>
    /\ loading = Idle
    /\ appError = "null"
    /\ refImages = <<>>
    /\ activeTask = "perspective"
    /\ baseImages = <<"A">>
    /\ activeIndex = 0
    /\ annotatedImages = <<>>
    /\ prompt = "p"
    /\ isUpscaleMode \in BOOLEAN
    /\ stylePrompt = ""
    /\ isAnalyzing = FALSE
    /\ isGeneratingRefs = FALSE
    /\ analysisResult = "null"
    /\ workspaceError = "null"
    /\ gen = GenIdle
    /\ ana = AnaIdle
    /\ refs = RefsIdle
    /\ inflight = {}
    /\ ops = 0
    /\ fails = 0
    /\ nFeedback = 0

NextHistory ==
    \/ HandleRun(HistOps)
    \/ GenDimsResolved
    \/ GenCallResolves
    \/ GenDeductResolves
    \/ ClearHistory
    \/ \E feedback \in {"like", "dislike"} : Feedback(1, 1, feedback)

SpecHistory == InitHistory /\ [][NextHistory]_vars

\* the run button under clicks, task switches, edits and call completions
NextGate ==
    \/ HandleRun(GateOps)
    \/ GenDimsResolved
    \/ GenCallResolves
    \/ GenCallRejects(EInvalid, MaxAppFail)
    \/ GenDeductResolves
    \/ \E t \in TaskTypes : SwitchTask(t)
    \/ AddBaseImage("A", GateImages)
    \/ SetPrompt("p")
    \/ ToggleUpscaleMode

InitGate ==
    /\ InitRetry /\ now = 0 /\ InitClassify
    /\ InitUi

SpecGate == InitGate /\ [][NextGate]_vars

InitCanvasSpec ==
    /\ InitRetry /\ now = 0 /\ InitClassify
    /\ InitWorkspace(<<"A">>)

\* one image, one pointer drawing stroke after stroke, undo and redo
NextStrokes ==
    \/ ImgLoaded("A")
    \/ StartAction(FALSE, MAX_UNDO_STEPS + 1, TRUE)
    \/ MoveAction(Origin, StrokeMarks, 1)
    \/ RafFires
    \/ StopAction(TRUE)
    \/ Undo(TRUE)
    \/ Redo(TRUE)

SpecStrokes == InitCanvasSpec /\ [][NextStrokes]_vars

\* at most MAX_UNDO_STEPS strokes on a freshly loaded image, each a gesture
\* start on the image, a move and a gesture end, with undo and redo
\* between them
NextUndo ==
    \/ ImgLoaded("A")
    \/ HasCanvas /\ StartAction(FALSE, MAX_UNDO_STEPS, TRUE)
    \/ MoveAction(Origin, MAX_UNDO_STEPS, 1)
    \/ RafFires
    \/ StopAction(TRUE)
    \/ Undo(TRUE)
    \/ Redo(TRUE)

SpecUndo == InitCanvasSpec /\ [][NextUndo]_vars

\* one image under every drawing action
NextCanvas ==
    \/ ImgLoaded("A")
    \/ \E t \in Tools \ {"pan"} : SetTool(t)
    \/ StartAction(FALSE, CanvasSnaps, TRUE)
    \/ MoveAction(Origin, CanvasSnaps, 1)
    \/ RafFires
    \/ StopAction(FALSE)
    \/ ClearCanvas(CanvasSnaps)
    \/ Undo(TRUE)
    \/ Redo(TRUE)

SpecCanvas == InitCanvasSpec /\ [][NextCanvas]_vars

\* the parent passing other images while the editor is in use
NextReload ==
    \/ \E b \in Images : SetBaseImage(b)
    \/ \E b \in Images : ImgLoaded(b)
    \/ \E b \in Images : ImgError(b)
    \/ HasCanvas /\ StartAction(FALSE, CanvasSnaps, TRUE)
    \/ MoveAction(Origin, CanvasSnaps, 1)
    \/ RafFires
    \/ StopAction(TRUE)
    \/ \E alt \in {TRUE}, deltaY \in {-100} : HandleWheel(alt, deltaY)
    \/ Undo(TRUE)
    \/ Redo(TRUE)

SpecReload == InitCanvasSpec /\ [][NextReload]_vars

\* the view: zoom, pan and reset around a little drawing
NextView ==
    \/ \E b \in Images : SetBaseImage(b)
    \/ \E b \in Images : ImgLoaded(b)
    \/ \E mod \in BOOLEAN : StartAction(mod, CanvasSnaps, TRUE)
    \/ \E off \in Offsets : MoveAction(off, CanvasSnaps, 1)
    \/ RafFires
    \/ StopAction(TRUE)
    \/ \E alt \in BOOLEAN, deltaY \in DeltaYs : HandleWheel(alt, deltaY)
    \/ ResetView

SpecView == InitCanvasSpec /\ [][NextView]_vars

\* the pan tool and the modifiers among strokes, with presses during a
\* gesture under way
NextPan ==
    \/ ImgLoaded("A")
    \/ \E t \in Tools : SetTool(t)
    \/ \E mod \in BOOLEAN : StartAction(mod, CanvasSnaps, FALSE)
    \/ \E off \in Offsets : MoveAction(off, CanvasSnaps, 1)
    \/ RafFires
    \/ StopAction(FALSE)
    \/ Undo(TRUE)
    \/ Redo(TRUE)

SpecPan == InitCanvasSpec /\ [][NextPan]_vars

\* strokes of several moves, released at any moment, frames firing between
\* the moves or not
FrameSegs == 2

NextFrames ==
    \/ ImgLoaded("A")
    \/ \E t \in {"marker", "eraser"} : SetTool(t)
    \/ StartAction(FALSE, CanvasSnaps, TRUE)
    \/ MoveAction(Origin, CanvasSnaps + 1, FrameSegs)
    \/ RafFires
    \/ StopAction(FALSE)
    \/ Undo(TRUE)

SpecFrames == InitCanvasSpec /\ [][NextFrames]_vars

\* the slots of the workspace: images added, removed, cleared, selected,
\* batches run to their end, their results paged through and restored
NextSlots ==
    \/ \E src \in Images : AddBaseImage(src, SlotImages)
    \/ \E index \in 0..(SlotImages - 1) : RemoveBaseImage(index)
    \/ ClearImages
    \/ \E idx \in 0..(SlotImages - 1) : SelectThumbnail(idx)
    \/ \E idx \in 0..(SlotImages - 1) : Paginate(idx)
    \/ RestoreItem
    \/ SetPrompt("p")
    \/ HandleRun(SlotOps)
    \/ GenDimsResolved
    \/ GenCallResolves
    \/ GenDeductResolves

SpecSlots == Init /\ [][NextSlots]_vars

\* the editor under changes of the slots: images added, removed and
\* selected, the active one loaded, drawn on by one pointer and restored
NextMounts ==
    \/ \E src \in Images : AddBaseImage(src, SlotImages)
    \/ \E index \in 0..(SlotImages - 1) : RemoveBaseImage(index)
    \/ \E idx \in 0..(SlotImages - 1) : SelectThumbnail(idx)
    \/ \E b \in Images : ImgLoaded(b)
    \/ HasCanvas /\ StartAction(FALSE, CanvasSnaps, TRUE)
    \/ MoveAction(Origin, CanvasSnaps, 1)
    \/ RafFires
    \/ StopAction(TRUE)
    \/ Undo(TRUE)

SpecMounts == Init /\ [][NextMounts]_vars

\* one pointer drawing and clearing on the loaded image while undo and
\* redo are invoked at any moment, a gesture in progress included
NextMidGesture ==
    \/ ImgLoaded("A")
    \/ HasCanvas /\ StartAction(FALSE, CanvasSnaps, TRUE)
    \/ MoveAction(Origin, CanvasSnaps, 1)
    \/ RafFires
    \/ StopAction(FALSE)
    \/ ClearCanvas(CanvasSnaps)
    \/ Undo(FALSE)
    \/ Redo(FALSE)

SpecMidGesture == InitCanvasSpec /\ [][NextMidGesture]_vars


\* ------------------------------------------------------------------------
\* Properties of retryOperation (specification Spec)
\* ------------------------------------------------------------------------
\* the first k invocations all failed with a retryable error
FailedRetryably(k) ==
    /\ Len(opLog) >= k
    /\ \A i \in 1..k : ~opLog[i].out.ok /\ opLog[i].out.err \in RetryableErrors

Running == rpc \in {"loop", "await", "sleep"}

\* C1: with retries = 5, for every k in 0..5: after k retryable failures
\* the loop has not given up, and when invocation k+1 then succeeds
\* retryOperation returns that value after exactly k+1 invocations.
C1_SucceedsAfterKFailures ==
    \A k \in 0..retries :
        /\ (Len(opLog) = k /\ FailedRetryably(k)) => Running
        /\ (Len(opLog) = k + 1 /\ FailedRetryably(k) /\ opLog[k + 1].out.ok)
              => /\ rpc = "returned"
                 /\ rResult = opLog[k + 1].out
                 /\ calls = k + 1

C1_Witness ==
    /\ rpc = "returned" /\ Len(opLog) = 4 /\ FailedRetryably(3)
    /\ opLog[4].out = Ok("v2") /\ calls = 4

\* C2: a terminal failure is the last thing the operation does: it was
\* invoked once for it, no backoff wait follows it, and the very same
\* error value is rethrown, also after earlier retryable failures.
C2_TerminalPropagates ==
    \A i \in 1..Len(opLog) :
        (~opLog[i].out.ok /\ opLog[i].out.err \in TerminalErrors)
            => /\ i = Len(opLog)
               /\ calls = i
               /\ rpc = "thrown"
               /\ rResult = Fail(opLog[i].out.err)
               /\ Len(waits) = i - 1
               /\ FailedRetryably(i - 1)

C2_Witness ==
    /\ rpc = "thrown" /\ Len(opLog) = 3 /\ FailedRetryably(2)
    /\ opLog[3].out.err = ESafety /\ rResult.err = ESafety /\ calls = 3

\* C3: never more than retries + 1 = 6 invocations; a retryable error
\* reaches the caller only when all 6 invocations failed retryably, and
\* then it is the error of the 6th invocation.
C3_BoundedAttempts ==
    /\ calls <= retries + 1
    /\ Len(opLog) <= 6
    /\ (Len(opLog) = 6 /\ FailedRetryably(6))
          => rpc = "thrown" /\ rResult = opLog[6].out
    /\ (rpc = "thrown" /\ rResult.err \in RetryableErrors)
          => /\ Len(opLog) = 6 /\ calls = 6
             /\ FailedRetryably(6)
             /\ rResult = opLog[6].out

C3_Witness ==
    /\ rpc = "thrown" /\ calls = 6 /\ FailedRetryably(6)
    /\ opLog[5].out.err = E503 /\ opLog[6].out.err = E429 /\ rResult.err = E429

\* C5: the wait after the failed attempt a is initialDelay * 2^a plus a
\* jitter below 1000 ms, invocation a+1 does not start before it elapsed,
\* and there is no wait before the first attempt or after the last one.
BaseDelays == <<2000, 4000, 8000, 16000, 32000>>

C5_BackoffDelays ==
    /\ Len(waits) <= retries
    /\ \A j \in 1..Len(waits) :
          /\ waits[j].attempt = j - 1
          /\ BaseDelays[j] <= waits[j].delay
          /\ waits[j].delay < BaseDelays[j] + 1000
          /\ Len(opLog) >= j
          /\ waits[j].from = opLog[j].at
          /\ ~opLog[j].out.ok /\ opLog[j].out.err \in RetryableErrors
    /\ \A j \in 1..Len(callLog) :
          IF j = 1 THEN callLog[j] = 0
          ELSE /\ Len(waits) >= j - 1
               /\ callLog[j] >= waits[j - 1].from + waits[j - 1].delay
    /\ (rpc \in {"returned", "thrown"}) => Len(waits) = calls - 1
    /\ (rpc = "sleep") => Len(waits) = calls
    /\ (rpc \in {"loop", "await"}) => Len(waits) = attempt

C5_Witness ==
    /\ rpc = "thrown" /\ Len(waits) = 5
    /\ waits[5].delay = 32999 /\ waits[1].delay = 2000
    /\ callLog[6] > waits[5].from + waits[5].delay

\* ------------------------------------------------------------------------
\* Properties of isRetryableError (specification SpecClassify)
\* ------------------------------------------------------------------------
CarriesTopLevel(e) ==
    e.status \in {Num(429), Num(503)} \/ e.code \in {Num(429), Num(503)}

CarriesInMessage(e) ==
    Includes(e.message, <<"429">>) \/ Includes(e.message, <<"503">>)

\* the nested `error` object holds the number in its status field
CarriesNestedStatusNumber(e) ==
    e.inner.present /\ e.inner.status \in {Num(429), Num(503)}

\* the nested `error` object holds the number in its code field, or the
\* status name that goes with it in its status field
CarriesNested(e) ==
    /\ e.inner.present
    /\ \/ e.inner.code \in {Num(429), Num(503)}
       \/ e.inner.status \in {Str("RESOURCE_EXHAUSTED"), Str("UNAVAILABLE")}

PlainInvalidArgument == Err("Error", Undef, Undef, NoInner, <<"invalid argument">>)

\* C4 as stated: 429 or 503 in a top-level status/code field, in the
\* status field of the nested error object, or in the message makes an
\* error object retryable; a plain "invalid argument" error is not.
C4_AsStated ==
    (cRes # "pending" /\ cErr.type \in {"Error", "object"}) =>
        /\ (CarriesTopLevel(cErr) \/ CarriesNestedStatusNumber(cErr) \/ CarriesInMessage(cErr))
              => cRes = "retryable"
        /\ (cErr = PlainInvalidArgument) => cRes = "terminal"

\* C4 amended: the nested location is the nested object's numeric `code`
\* field (429 / 503) or its `status` field holding the status name
\* RESOURCE_EXHAUSTED / UNAVAILABLE; a number in the nested status field
\* alone does not make the error retryable.
C4_Classification ==
    (cRes # "pending" /\ cErr.type \in {"Error", "object"}) =>
        /\ (CarriesTopLevel(cErr) \/ CarriesNested(cErr) \/ CarriesInMessage(cErr))
              => cRes = "retryable"
        /\ (cErr = PlainInvalidArgument) => cRes = "terminal"
        /\ (cErr = Err("object", Undef, Undef, Inner(Undef, Num(503), <<>>), <<>>))
              => cRes = "terminal"

C4_Witness ==
    /\ cRes = "retryable"
    /\ cErr = Err("object", Undef, Undef, Inner(Num(429), Undef, <<>>), <<>>)

\* ------------------------------------------------------------------------
\* Properties of a batch (specification SpecBatch)
\* ------------------------------------------------------------------------
GenInflight == {r \in inflight : r.who = "gen"}

\* C6: the requests of a batch are strictly sequential: at most one is in
\* flight, it is the request for image gen.i, every earlier image has
\* settled with a result, and requests are issued in image order.
C6_SequentialCalls ==
    /\ Cardinality(GenInflight) <= 1
    /\ \A r \in GenInflight :
          /\ gen.pc = "call"
          /\ r.idx = gen.i
          /\ Len(gen.results) = r.idx
          /\ gen.issued[Len(gen.issued)] = r.idx
    /\ \A a, b \in 1..Len(gen.issued) : a <= b => gen.issued[a] <= gen.issued[b]
    /\ \A a \in 1..Len(gen.issued) : gen.issued[a] <= Len(gen.results)

C6_Witness ==
    /\ gen.pc = "call" /\ gen.kind = "upscale" /\ Len(gen.images) = 2
    /\ gen.issued = <<0, 0, 1>>
    /\ GenInflight = {Req("gen", 1)}

\* the call for image gen.i has just failed for good
CallFailStep == gen.pc \in {"call", "sleep"} /\ gen'.pc = "failed"

\* C7: when the call for image k fails terminally or exhausts its retries,
\* the step leaves history and balance as they are and surfaces one error
\* message; afterwards no request of the batch is in flight, none was
\* issued for a later image, the k-1 results are in no history entry and
\* the batch debited nothing.
C7_AllOrNothing ==
    /\ [][CallFailStep =>
            /\ history' = history
            /\ credits' = credits
            /\ appError' = getHumanReadableError(gen'.error)
            /\ appError' # "null"
            /\ gen'.shown = 1
            /\ ~loading'.isGenerating]_vars
    /\ [](gen.pc = "failed" =>
            /\ GenInflight = {}
            /\ \A a \in 1..Len(gen.issued) : gen.issued[a] <= gen.i
            /\ \A h \in 1..Len(history) : history[h].id # gen.batchId
            /\ gen.debits = 0
            /\ gen.shown = 1)
    /\ [](gen.pc = "failed" /\ gen.error # EDebit =>
            /\ gen.i < Len(gen.images)
            /\ Len(gen.results) = gen.i
            /\ gen.issued # <<>> /\ gen.issued[Len(gen.issued)] = gen.i)

C7_Witness ==
    /\ gen.pc = "failed" /\ Len(gen.images) = 2 /\ gen.i = 0
    /\ gen.issued = <<0, 0, 0, 0, 0, 0>> /\ gen.error = E429
    /\ history = <<>> /\ appError = "quota" /\ credits = StartCredits

\* ------------------------------------------------------------------------
\* Properties of the credit balance (specification SpecApp)
\* ------------------------------------------------------------------------
\* C8: the balance changes only in the step that follows a successful
\* operation of a non-admin user, by exactly the operation's cost (cost * N
\* for a batch of N images, after the last call returned); a succeeded
\* batch debited once, a failed or rejected one never, and an admin's
\* balance never changes.
C8_DebitAfterSuccess ==
    /\ [][credits' # credits =>
            /\ ~isAdmin
            /\ \/ /\ gen.pc = "deduct" /\ gen'.pc = "done"
                  /\ Len(gen.results) = Len(gen.images)
                  /\ GenInflight = {}
                  /\ credits' = credits - CREDIT_COSTS[gen.kind] * Len(gen.images)
                  /\ gen.debits = 0 /\ gen'.debits = 1
                  /\ UNCHANGED <<ana, refs>>
               \/ /\ ana.pc = "deduct" /\ ana'.pc = "done"
                  /\ credits' = credits - CREDIT_COSTS["analysis"]
                  /\ ana.debits = 0 /\ ana'.debits = 1
                  /\ UNCHANGED <<gen, refs>>
               \/ /\ refs.pc = "deduct" /\ refs'.pc = "done"
                  /\ credits' = credits - CREDIT_COSTS["styleGeneration"] * StyleCount
                  /\ refs.debits = 0 /\ refs'.debits = 1
                  /\ UNCHANGED <<gen, ana>>]_vars
    /\ [](gen.pc = "done" => gen.debits = (IF isAdmin THEN 0 ELSE 1))
    /\ [](gen.pc \in {"failed", "rejected", "noinput", "empty"} => gen.debits = 0)
    /\ [](ana.pc \in {"failed", "rejected"} => ana.debits = 0)
    /\ [](refs.pc \in {"failed", "rejected"} => refs.debits = 0)
    /\ [](isAdmin => credits = StartCredits)

C8_Witness ==
    /\ ~isAdmin /\ gen.pc = "done" /\ gen.kind = "generation" /\ Len(gen.images) = 2
    /\ gen.debits = 1 /\ credits = StartCredits - 2 * CREDIT_COSTS["generation"]
    /\ Len(history) = 1 /\ Len(history[1].results) = 2

\* a click on the run button, the analyse button, the style button
RunClick == ~GenRunning /\ gen' # gen
AnaClick == ~AnaRunning /\ ana' # ana
RefsClick == ~RefsRunning /\ refs' # refs

RunCost ==
    getCreditCost(IF isUpscaleMode THEN "upscale" ELSE "generation", Len(imagesToProcess))

NothingDispatched ==
    /\ inflight' = inflight
    /\ credits' = credits
    /\ history' = history
    /\ ops' = ops

\* C9 as stated: every click made with a balance below the operation's
\* total cost dispatches nothing, leaves the busy flag down and shows the
\* insufficient-credits message.
C9_AsStated ==
    [][/\ (RunClick /\ ~isAdmin /\ credits < RunCost)
            => /\ NothingDispatched
               /\ ~loading'.isGenerating /\ gen'.pc # "dims"
               /\ appError' = "insufficient-credits"
       /\ (AnaClick /\ ~isAdmin /\ credits < CREDIT_COSTS["analysis"])
            => /\ NothingDispatched
               /\ ~isAnalyzing' /\ ana'.pc # "call"
               /\ workspaceError' = "insufficient-credits"
       /\ (RefsClick /\ ~isAdmin /\ credits < CREDIT_COSTS["styleGeneration"] * StyleCount)
            => /\ NothingDispatched
               /\ ~isGeneratingRefs' /\ refs'.pc # "call"
               /\ workspaceError' = "insufficient-credits"]_vars

\* ------------------------------------------------------------------------
\* Properties of the history (specification SpecHistory)
\* ------------------------------------------------------------------------
\* a finished batch is being added to the history
AddStep == gen.pc # "done" /\ gen'.pc = "done"

\* the id of the batch finished last
LastFinished == IF gen.pc = "done" THEN gen.batchId ELSE gen.batchId - 1

\* C10: the history holds at most MAX_HISTORY batches, newest first, and
\* they are exactly the batches finished last; adding a batch puts it in
\* front, keeps the others in order and, when the list was full, drops
\* the oldest one only.
C10_HistoryCap ==
    /\ [](Len(history) <= MAX_HISTORY)
    /\ [](\A a, b \in 1..Len(history) : a < b => history[a].id > history[b].id)
    /\ [](GenRunning \/ gen.pc = "done" =>
            \A a \in 1..Len(history) : history[a].id = LastFinished - (a - 1))
    /\ [][AddStep =>
            /\ Len(history') = Min(Len(history) + 1, MAX_HISTORY)
            /\ history'[1].id = gen'.batchId
            /\ history'[1].results = gen'.results
            /\ \A k \in 2..Len(history') : history'[k] = history[k - 1]]_vars

C10_Witness ==
    /\ Len(history) = MAX_HISTORY
    /\ gen.pc = "done"
    /\ history[1].id = MAX_HISTORY + 2
    /\ history[MAX_HISTORY].id = 3
    /\ history[MAX_HISTORY].results[1].feedback = "like"

\* ------------------------------------------------------------------------
\* Properties of the run button (specification SpecGate)
\* ------------------------------------------------------------------------
\* a batch is submitted: handleGenerate / handleUpscale pass the credit test
BatchStart == now' = now + 1 /\ gen'.batchId = now'

\* C11: a batch is submitted only while isGenerating is false and no batch
\* is in progress; isGenerating is true for as long as a batch is in
\* progress, whatever task is shown; the requests in flight belong to
\* the one batch in progress.
C11_OneBatchInFlight ==
    /\ [][BatchStart => ~loading.isGenerating /\ ~GenRunning /\ GenInflight = {}]_vars
    /\ [](GenRunning <=> loading.isGenerating)
    /\ [](GenInflight # {} => GenRunning)
    /\ [](Cardinality(GenInflight) <= 1)

C11_Witness ==
    /\ GenRunning /\ loading.isGenerating
    /\ gen.task = "perspective" /\ activeTask = "facade"
    /\ baseImages = <<"A">> /\ prompt = "p"
    /\ GenInflight # {}

\* ------------------------------------------------------------------------
\* Properties of the undo history (specification SpecStrokes)
\* ------------------------------------------------------------------------
\* a drawing gesture starts on the rendered canvas
StrokeStart == HasCanvas /\ ~isDrawing /\ isDrawing'

\* C12: the undo stack never holds more than MAX_UNDO_STEPS snapshots; a
\* snapshot pushed on a full stack evicts the oldest one, and the 19 more
\* recent ones stay in order below the new one.
C12_UndoCap ==
    /\ [](Len(undoStack) <= MAX_UNDO_STEPS)
    /\ [][StrokeStart /\ Len(undoStack) = MAX_UNDO_STEPS
            => /\ Len(undoStack') = MAX_UNDO_STEPS
               /\ SubSeq(undoStack', 1, MAX_UNDO_STEPS - 1)
                    = SubSeq(undoStack, 2, MAX_UNDO_STEPS)
               /\ undoStack'[MAX_UNDO_STEPS] = layer]_vars

\* the 22nd stroke has started: two snapshots were evicted
C12_Witness ==
    /\ isDrawing
    /\ Len(undoStack) = MAX_UNDO_STEPS
    /\ Len(layer) = MAX_UNDO_STEPS + 1
    /\ Len(undoStack[1]) = 2
    /\ undoStack[MAX_UNDO_STEPS] = layer

\* ------------------------------------------------------------------------
\* Properties of the drawing actions (specification SpecCanvas)
\* ------------------------------------------------------------------------
\* the start of a pencil, marker or eraser stroke
DrawStart == tool \in {"pencil", "marker", "eraser"} /\ ~isDrawing /\ isDrawing'

\* C13: right after the start of a pencil, marker or eraser stroke and right
\* after clear-canvas the redo stack is empty, whatever it held before.
C13_RedoCleared ==
    /\ [][DrawStart => redoStack' = <<>>]_vars
    /\ [][ClearCanvas(CanvasSnaps) => redoStack' = <<>>]_vars

\* a stroke was drawn and undone (the redo stack held it), and the next
\* stroke has started
C13_Witness ==
    /\ isDrawing /\ segs = 0
    /\ redoStack = <<>>
    /\ undoStack = << <<>> >>
    /\ layer = <<>>
    /\ composite.layer = <<"marker">>

\* ------------------------------------------------------------------------
\* Properties of undo and redo over committed strokes (specification SpecUndo)
\* ------------------------------------------------------------------------
\* what undo and redo act on
UndoState == <<layer, undoStack, redoStack, canUndo, canRedo, composite>>

\* C14: on a freshly loaded image with N <= MAX_UNDO_STEPS committed strokes
\* there are exactly N undos to take, each removes the newest stroke, so N
\* of them leave the layer pristine; an undo beyond that changes nothing;
\* a committed stroke leaves nothing to redo, and redo then changes nothing.
C14_UndoRedoStrokes ==
    /\ [](HasCanvas /\ ~isDrawing => Len(undoStack) = Len(layer))
    /\ [](HasCanvas /\ ~isDrawing /\ undoStack = <<>> => layer = <<>>)
    /\ [][Undo(TRUE) /\ HasCanvas /\ undoStack # <<>> => layer' = Front(layer)]_vars
    /\ [][Undo(TRUE) /\ undoStack = <<>> => UNCHANGED UndoState]_vars
    /\ [][StopAction(TRUE) /\ isDrawing => redoStack' = <<>>]_vars
    /\ [][Redo(TRUE) /\ redoStack = <<>> => UNCHANGED UndoState]_vars

\* MAX_UNDO_STEPS strokes were drawn and every one of them undone
C14_Witness ==
    /\ HasCanvas /\ ~isDrawing
    /\ layer = <<>> /\ undoStack = <<>> /\ ~canUndo
    /\ Len(redoStack) = MAX_UNDO_STEPS
    /\ Len(redoStack[1]) = MAX_UNDO_STEPS

\* a successful undo or redo on a loaded base image
UndoRedoDone ==
    \/ Undo(TRUE) /\ HasCanvas /\ undoStack # <<>>
    \/ Redo(TRUE) /\ HasCanvas /\ redoStack # <<>>

\* C15: every successful undo and every successful redo on a loaded base
\* image calls onUpdate with the base image plus the restored layer, so the
\* composite the caller holds matches the canvas afterwards.
C15_AsStated ==
    [][UndoRedoDone => emitted' /\ composite' = Composite(imgElement, layer')]_vars

\* ------------------------------------------------------------------------
\* Properties of image loading (specification SpecReload)
\* ------------------------------------------------------------------------
\* C16: when a base image finishes loading, whatever the undo and redo
\* stacks held, both are empty afterwards, canUndo and canRedo are false,
\* the scale is 1 and the offset is (0, 0).
C16_LoadResets ==
    [][(\E b \in Images : ImgLoaded(b))
         => /\ undoStack' = <<>> /\ redoStack' = <<>>
            /\ ~canUndo' /\ ~canRedo'
            /\ scale' = ScaleOne /\ offset' = Origin]_vars

\* image B finished loading during a stroke begun on image A: the
\* snapshot taken at the start of the stroke is gone
C16_Witness ==
    /\ imgElement = "B" /\ canvasSize = "B"
    /\ isDrawing /\ raf
    /\ undoStack = <<>> /\ redoStack = <<>>
    /\ ~canUndo /\ ~canRedo
    /\ scale = ScaleOne /\ offset = Origin

\* clear-canvas on a loaded image
ClearDone == ClearCanvas(CanvasSnaps) /\ HasCanvas

\* an undo taken right after clear-canvas: the newest snapshot is the one
\* clear-canvas pushed, nothing is drawn over an empty layer since
UndoAfterClear ==
    /\ Undo(TRUE) /\ HasCanvas
    /\ layer = <<>> /\ redoStack = <<>> /\ undoStack # <<>>
    /\ composite = Composite(imgElement, <<>>)

\* C17: clear-canvas on a loaded image pushes exactly one snapshot, the
\* layer as it was, on the undo stack and empties the redo stack, leaves
\* the layer transparent and emits the base image with nothing over it;
\* one undo right after it restores the layer as it was before the clear.
C17_ClearCanvas ==
    /\ [][ClearDone
            => /\ undoStack' = Append(undoStack, layer)
               /\ redoStack' = <<>>
               /\ layer' = <<>>
               /\ emitted' /\ composite'.base = imgElement /\ composite'.layer = <<>>]_vars
    /\ [][ClearDone => Last(undoStack') = layer]_vars
    /\ [][UndoAfterClear => layer' = Last(undoStack) /\ redoStack' = << <<>> >>]_vars

\* a stroke was drawn, the canvas cleared, and the clear undone
C17_Witness ==
    /\ HasCanvas /\ ~isDrawing
    /\ layer # <<>>
    /\ undoStack = << <<>> >>
    /\ redoStack = << <<>> >>
    /\ composite = Composite(imgElement, <<>>)

\* ------------------------------------------------------------------------
\* Properties of the history batches and of empty responses (specification SpecApp)
\* ------------------------------------------------------------------------
\* C18: every batch of the history covers one or more input images and
\* holds one result per input image, in input order; no batch of a
\* reachable history has zero results.
C18_AsStated ==
    \A k \in 1..Len(history) :
        /\ Len(history[k].results) >= 1
        /\ \A j \in 1..Len(history[k].results) :
              history[k].results[j].id = <<history[k].id, j - 1>>

\* a response without a usable payload arrives
EmptyResponse ==
    \/ GenCallNoImage(MaxAppFail)
    \/ AnaCallResolves("")
    \/ RefsCallResolves(0)

\* the operation the empty response belongs to has failed
EmptyResponseFails ==
    /\ GenCallNoImage(MaxAppFail) => gen'.pc = "failed"
    /\ AnaCallResolves("") => ana'.pc = "failed"
    /\ RefsCallResolves(0) => refs'.pc = "failed"

\* C19: a response with no usable payload makes its operation fail with
\* "no content generated" (generation, upscale, each request of the style
\* images, analysis), and no credits are debited for an operation that
\* received such a response.
C19_AsStated ==
    /\ [][EmptyResponse => EmptyResponseFails]_vars
    /\ [](ana.result = "Impossible d'analyser l'image." => ana.debits = 0)
    /\ [](refs.pc = "done" /\ Len(refs.images) < StyleCount => refs.debits = 0)
    /\ [](gen.error = ENoImage => gen.debits = 0)

\* ------------------------------------------------------------------------
\* Properties of the view (specification SpecView)
\* ------------------------------------------------------------------------
\* a step of zooming, of panning or of reset-view
ViewStep ==
    \/ \E alt \in BOOLEAN, deltaY \in DeltaYs : HandleWheel(alt, deltaY)
    \/ ResetView
    \/ StartAction(TRUE, CanvasSnaps, TRUE)
    \/ isPanning /\ \E off \in Offsets : MoveAction(off, CanvasSnaps, 1)
    \/ isPanning /\ StopAction(TRUE)

\* C20: the scale stays within [0.1, 10] under any sequence of wheel
\* events, reset-view and image loads; zooming, panning and reset-view
\* leave the raster and the undo and redo stacks as they are.
C20_ViewBounds ==
    /\ [](ScaleMin <= scale /\ scale <= ScaleMax)
    /\ [][ViewStep => UNCHANGED <<layer, undoStack, redoStack, canUndo, canRedo>>]_vars

\* zoomed out to the lower limit and panned, over a drawing with history
C20_Witness ==
    /\ scale = ScaleMin
    /\ offset # Origin
    /\ layer # <<>> /\ undoStack # <<>>

\* ------------------------------------------------------------------------
\* Properties of getClosestAspectRatio (specification SpecRatio)
\* ------------------------------------------------------------------------
\* 144 * height * |ratios[k] - width / height| for the call made
Dist144(k) ==
    Abs(ratios[k][1] * (144 \div ratios[k][2]) * hArg.height - 144 * hArg.width)

\* C21: for positive width and height getClosestAspectRatio returns a member
\* of {16:9, 4:3, 1:1, 3:4, 9:16} than which no other member is strictly
\* closer to width / height; for 4000 x 2000 it returns "16:9".
C21_ClosestRatio ==
    (hArg.fn = "getClosestAspectRatio" /\ hRes.done
        /\ hArg.width > 0 /\ hArg.height > 0)
    => /\ hRes.val \in {"16:9", "4:3", "1:1", "3:4", "9:16"}
       /\ \A k \in {"16:9", "4:3", "1:1", "3:4", "9:16"} : Dist144(hRes.val) <= Dist144(k)
       /\ (hArg.width = 4000 /\ hArg.height = 2000) => hRes.val = "16:9"

C21_Witness ==
    /\ hArg = [fn |-> "getClosestAspectRatio", width |-> 4000, height |-> 2000]
    /\ hRes = Returned("16:9")

\* ------------------------------------------------------------------------
\* Properties of resizeImageForApi (specification SpecResize)
\* ------------------------------------------------------------------------
ResizeDone == hArg.fn = "resizeImageForApi" /\ hRes.done

\* the output has its longest edge at maxPx and its other edge at the whole
\* number nearest to edge * maxPx / longest
ScaledToMax ==
    LET img == hArg.img
        out == hRes.val
        longest == Max(img.width, img.height)
    IN  /\ Max(out.width, out.height) = hArg.maxPx
        /\ 2 * Abs(out.width * longest - img.width * hArg.maxPx) <= longest
        /\ 2 * Abs(out.height * longest - img.height * hArg.maxPx) <= longest

ReturnedUnchanged == hRes.val = Unchanged(hArg.img)

PanStart ==
    \E mod \in BOOLEAN : (tool = "pan" \/ mod) /\ StartAction(mod, CanvasSnaps, FALSE)

\* the steps of a pan gesture: its press, its moves and its release
PanGestureStep ==
    \/ PanStart
    \/ isPanning /\ \E off \in Offsets : MoveAction(off, CanvasSnaps, 1)
    \/ isPanning /\ StopAction(FALSE)

\* C23: no step of a pan gesture, from its press to its release, changes the
\* annotation raster, pushes an undo snapshot or clears the redo stack, and
\* none changes the selected tool; while only a pan is under way no frame
\* callback is pending that could draw.
C23_PanFrame ==
    /\ [][PanGestureStep
            => UNCHANGED <<layer, undoStack, redoStack, canUndo, canRedo, tool>>]_vars
    /\ [](isPanning /\ ~isDrawing => ~raf)

\* a pan by modifier under the marker tool, over a drawing with an undone
\* stroke, has moved the view
C23_Witness ==
    /\ HasCanvas /\ isPanning /\ ~isDrawing
    /\ tool = "marker"
    /\ offset # Origin
    /\ layer # <<>> /\ undoStack # <<>> /\ redoStack # <<>>

\* ------------------------------------------------------------------------
\* Properties of one stroke (specification SpecFrames)
\* ------------------------------------------------------------------------
\* the steps of a stroke after its press
StrokeMove == isDrawing /\ HasCanvas /\ MoveAction(Origin, CanvasSnaps + 1, FrameSegs)
StrokeEnd == isDrawing /\ StopAction(FALSE)

C29_AsStated ==
    baseImages # <<>> => activeIndex \in 0..(Len(baseImages) - 1)

\* ------------------------------------------------------------------------
\* C25: for any sequence of adding, removing and selecting base images the
\* editor of the active slot never carries the drawing state (annotation
\* raster, undo and redo stacks) of another slot or of a removed image:
\* whenever the image shown in the active slot changes the editor is
\* remounted with an empty layer and empty stacks, whenever the image
\* whose drawing the editor holds is removed or shifted to another slot
\* the editor is left without that drawing, and each stored
\* annotatedImages[i] is a composite of baseImages[i].
\* ------------------------------------------------------------------------
\* the image shown in the active slot
ActiveImage == IF HasActiveBaseImage THEN baseImages[activeIndex + 1] ELSE "null"

EmptyEditor == layer = <<>> /\ undoStack = <<>> /\ redoStack = <<>>

ActiveImageChanged == ActiveImage' # ActiveImage

\* the image of the active slot is removed, or one before it, which moves
\* the images after it one slot down
ActiveSlotRemoved == \E index \in 0..activeIndex : RemoveBaseImage(index)

CompositesOfTheirSlot ==
    \A i \in DOMAIN annotatedImages :
        i < Len(baseImages) /\ annotatedImages[i].base = baseImages[i + 1]

C25_AsStated ==
    /\ [][ActiveImageChanged => EmptyEditor']_vars
    /\ [][ActiveSlotRemoved => EmptyEditor']_vars
    /\ []CompositesOfTheirSlot

\* ------------------------------------------------------------------------
\* C26: the undo and the redo stack together never hold more than
\* MAX_UNDO_STEPS snapshots; an undo that finds a snapshot moves the top of
\* the undo stack off it and puts one snapshot on the redo stack, a redo
\* that finds one does the converse (with a plain push, no capacity check),
\* and both keep the sum of the two lengths.
\* ------------------------------------------------------------------------
StackSum == Len(undoStack) + Len(redoStack)

UndoMoves == Undo(TRUE) /\ HasCanvas /\ undoStack # <<>>

RedoMoves == Redo(TRUE) /\ HasCanvas /\ redoStack # <<>>

C26_StackSum ==
    /\ [](StackSum <= MAX_UNDO_STEPS)
    /\ [][UndoMoves => /\ undoStack' = Front(undoStack)
                       /\ Front(redoStack') = redoStack
                       /\ Len(redoStack') = Len(redoStack) + 1
                       /\ StackSum' = StackSum]_vars
    /\ [][RedoMoves => /\ redoStack' = Front(redoStack)
                       /\ Front(undoStack') = undoStack
                       /\ Len(undoStack') = Len(undoStack) + 1
                       /\ StackSum' = StackSum]_vars

\* a redo has pushed onto an undo stack of MAX_UNDO_STEPS - 1 snapshots,
\* and snapshots are left to redo: the stacks were full before and after
C26_Witness ==
    /\ HasCanvas /\ ~isDrawing
    /\ Len(undoStack) = MAX_UNDO_STEPS - 1
    /\ Len(redoStack) = 1
    /\ Len(layer) = MAX_UNDO_STEPS - 1
    /\ Len(redoStack[1]) = MAX_UNDO_STEPS

\* ------------------------------------------------------------------------
\* C28: the locally tracked credit balance of a non-admin user never
\* becomes negative, for any interleaving of generation or upscale batches,
\* image analysis and style-image generation.
\* ------------------------------------------------------------------------
C28_AsStated == ~isAdmin => credits >= 0

\* ------------------------------------------------------------------------
\* C27: for any interleaving of stroke gestures, clear-canvas and undo and
\* redo (also invoked while a stroke gesture is in progress) that takes no
\* more snapshots than the undo stack holds, undo invoked until it has
\* nothing left to undo leaves the annotation layer fully transparent.
\* ------------------------------------------------------------------------
\* an undo on the canvas after which nothing is left to undo: the last one
\* that restores a snapshot, or one that finds the stack empty
LastUndo == Undo(FALSE) /\ HasCanvas /\ undoStack' = <<>>

C27_AsStated == [][LastUndo => layer' = <<>>]_vars

\* ------------------------------------------------------------------------
\* C30: provided every call and every backoff wait of a batch eventually
\* settles, a batch that has set isGenerating sets it back to false,
\* whether it succeeds, a call fails for good, the retries are exhausted or
\* the debit fails; isGenerating is never true with no batch in flight.
\* ------------------------------------------------------------------------
C30_BatchEnds ==
    /\ [](loading.isGenerating => GenRunning)
    /\ loading.isGenerating ~> ~loading.isGenerating

\* the retries of a request were exhausted and the batch has ended
C30_Witness ==
    /\ gen.pc = "failed"
    /\ gen.attempt = retries
    /\ gen.error = E503
    /\ ~loading.isGenerating
====
